---- MODULE Spec2Model ----
(***************************************************************************)
(* Offline-first page store of hasnote: the zustand page store             *)
(* (store/pageStore, printed after the router in src/src/App.tsx), the     *)
(* IndexedDB layer with its sync queue (lib/db, src/unnamed/part_005) and  *)
(* the Supabase `pages` table the store writes through to.                 *)
(*                                                                         *)
(* A Page carries id, title, parent_id and is_pinned.  The fields content,  *)
(* type, user_id and created_at are copied around by the code but never    *)
(* read by it, and are left out.  updated_at is read only by the remote    *)
(* ORDER BY: every remote write carries the timestamp of the handler that  *)
(* issues it, so the table is kept as a sequence with the row written last *)
(* in front, which is its updated_at-descending order.  Page ids are       *)
(* 1..MaxPages, 0 stands for null.                                          *)
(*                                                                         *)
(* In Spec every handler call runs from its first line to its return as    *)
(* one step; calls do not overlap at their await points.                   *)
(***************************************************************************)
EXTENDS Integers, Sequences, FiniteSets, TLC

\* ---- bounds -------------------------------------------------------------
MaxPages == 2
MaxKey == 2
MaxSecrets == 2
MaxTodos == 2

PageIds == 1..MaxPages
NewTitle == "Untitled Note"
EditedTitle == "Renamed"

VARIABLES
    pages,          \* PagesState.pages: the in-memory projection (an array)
    currentPage,    \* PagesState.currentPage (NullPage for null)
    loading,        \* PagesState.loading
    error,          \* PagesState.error (NoError for null)
    localPages,     \* IndexedDB object store 'pages', keyed by id
    syncQueue,      \* IndexedDB object store 'syncQueue', keyed by id
    nextKey,        \* key generator of the autoIncrement store 'syncQueue'
    remotePages,    \* rows of the Supabase table 'pages'
    online,         \* navigator.onLine
    usedIds,        \* ids crypto.randomUUID() has handed out
    lastCall,       \* the handler that ran last, its arguments and its outcome
    pinnedOrder,    \* PagesState.pinnedOrder (an array of page ids)
    localPrefs,     \* IndexedDB object store 'user_preferences', keyed by id
    remotePrefs,    \* rows of the Supabase table 'user_preferences'
    secrets,        \* KMSState.secrets: the in-memory list of Secret rows
    hasPin,         \* KMSState.hasPin
    remoteSecrets,  \* rows of the Supabase table 'encrypted_secrets'
    userPins,       \* rows of the Supabase table 'user_pins'
    nextSecret,     \* next id gen_random_uuid() gives a row of encrypted_secrets
    revealedSecrets,\* SecretsList state revealedSecrets: secret id -> value
    pinModal,       \* SecretsList state pinModal: "null", "create" or "verify"
    pendingAction,  \* SecretsList state pendingAction (NoAction for null)
    kmsCall,        \* the KMS handler that ran last, its arguments and outcome
    todos,          \* TodoList state todos: the in-memory list (an array)
    localTodos,     \* IndexedDB object store 'todos', keyed by id
    remoteTodos,    \* rows of the Supabase table 'todo_items'
    inflight        \* the handler calls that stand at an await, with their locals

pageVars == <<pages, currentPage, loading, error, localPages, syncQueue, nextKey,
              remotePages, online, usedIds, lastCall>>

pinVars == <<pinnedOrder, localPrefs, remotePrefs>>

kmsVars == <<secrets, hasPin, remoteSecrets, userPins, nextSecret,
             revealedSecrets, pinModal, pendingAction, kmsCall>>

todoVars == <<todos, localTodos, remoteTodos>>

\* What the handlers of one part leave alone of the parts added after it.
restVars == <<todoVars, inflight>>

vars == <<pageVars, pinVars, kmsVars, restVars>>

\* ---- values -------------------------------------------------------------
NullPage == [id |-> 0, title |-> "", parent_id |-> 0, is_pinned |-> FALSE]

NoError == "null"

\* What a handler reports about its run: op and id are the call, user the
\* result of supabase.auth.getUser() (0 for null), onl the reading of
\* navigator.onLine, outcome whether the promise resolved ("returned") or
\* rejected ("threw"), value the resolved value (0 for null/undefined),
\* remote the fate of the handler's own remote call ("none" when none was
\* issued), rec the record the handler built and log what the loop of
\* processSyncQueue did, item by item.
CallWithLog(op, id, user, onl, outcome, value, remote, rec, log) ==
    [op |-> op, id |-> id, user |-> user, online |-> onl, outcome |-> outcome,
     value |-> value, remote |-> remote, rec |-> rec, log |-> log]

Call(op, id, user, onl, outcome, value, remote, rec) ==
    CallWithLog(op, id, user, onl, outcome, value, remote, rec, <<>>)

\* ---- the IndexedDB stores -----------------------------------------------
RECURSIVE SortByKey(_)
SortByKey(S) ==
    IF S = {} THEN <<>>
    ELSE LET m == CHOOSE r \in S : \A q \in S : r.id <= q.id
         IN  <<m>> \o SortByKey(S \ {m})

RECURSIVE SortByKeyDesc(_)
SortByKeyDesc(S) ==
    IF S = {} THEN <<>>
    ELSE LET m == CHOOSE r \in S : \A q \in S : r.id >= q.id
         IN  <<m>> \o SortByKeyDesc(S \ {m})

\* store.getAll(): every record, in ascending key order
dbGetAllDescending(store) == SortByKeyDesc(store)
dbGetAll(store) == SortByKey(store)

\* db.get(store, key): the record, or undefined
dbGet(store, key) ==
    IF \E r \in store : r.id = key
    THEN CHOOSE r \in store : r.id = key
    ELSE NullPage

\* db.put(store, record): insert or replace by key
dbPut(store, rec) == {r \in store : r.id # rec.id} \cup {rec}

\* db.delete(store, key)
dbDelete(store, key) == {r \in store : r.id # key}

addToSyncQueueLost(queue, key, type, table, data, inline) == queue

\* addToSyncQueue(type, table, data): db.add with the next generated key.
\* inline is a history field, not in the stored entry: the fate of the remote
\* call the enqueuing handler goes on to make ("none", "ok" or "failed").
addToSyncQueue(queue, key, type, table, data, inline) ==
    queue \cup {[id |-> key, type |-> type, table |-> table, data |-> data,
                 inline |-> inline]}

\* ---- the Supabase table -------------------------------------------------
\* from('pages').select('*').order('updated_at', {ascending: false})
remoteSelectAll(table) == table

\* rows.filter(row => row.id !== id)
RECURSIVE WithoutRow(_, _)
WithoutRow(table, id) ==
    IF table = <<>> THEN <<>>
    ELSE IF Head(table).id = id
         THEN WithoutRow(Tail(table), id)
         ELSE <<Head(table)>> \o WithoutRow(Tail(table), id)

HasRow(table, id) == \E k \in 1..Len(table) : table[k].id = id

\* from('pages').insert(row)
remoteInsert(table, row) == <<row>> \o table

\* from('pages').update(row).eq('id', id): rewrites the matching row, if any
remoteUpdate(table, row, id) ==
    IF HasRow(table, id) THEN <<row>> \o WithoutRow(table, id) ELSE table

\* from('pages').delete().eq('id', id)
remoteDelete(table, id) == WithoutRow(table, id)

\* The outcomes a remote call can have: it cannot succeed without a network.
RemoteOutcomes == IF online THEN {"ok", "failed"} ELSE {"failed"}

\* ---- helpers on the projection ------------------------------------------
Range(s) == {s[k] : k \in 1..Len(s)}

\* A lookup that makes up a blank page for an id it does not find.
FindPageOrBlank(ps, pageId) ==
    IF \E k \in 1..Len(ps) : ps[k].id = pageId
    THEN ps[CHOOSE k \in 1..Len(ps) :
               ps[k].id = pageId /\ \A j \in 1..(k - 1) : ps[j].id # pageId]
    ELSE [NullPage EXCEPT !.id = pageId]
\* pages.find((p) => p.id === pageId)
FindPage(ps, pageId) ==
    IF \E k \in 1..Len(ps) : ps[k].id = pageId
    THEN ps[CHOOSE k \in 1..Len(ps) :
               ps[k].id = pageId /\ \A j \in 1..(k - 1) : ps[j].id # pageId]
    ELSE NullPage

\* pages.map((p) => p.id === pageId ? updatedPage : p)
ReplacePage(ps, pageId, updatedPage) ==
    [k \in 1..Len(ps) |-> IF ps[k].id = pageId THEN updatedPage ELSE ps[k]]

\* pages.filter((page) => page.id !== pageId)
RECURSIVE RemovePage(_, _)
RemovePage(ps, pageId) ==
    IF ps = <<>> THEN <<>>
    ELSE IF Head(ps).id = pageId
         THEN RemovePage(Tail(ps), pageId)
         ELSE <<Head(ps)>> \o RemovePage(Tail(ps), pageId)

\* get().pages.filter((p) => p.parent_id === pageId).length > 0
HasChildPages(ps, pageId) == \E k \in 1..Len(ps) : ps[k].parent_id = pageId

\* The catch blocks of the write handlers, entered with the projection as it
\* was before the call and as the handler has set it since: console.error
\* and set({error}); the projection is not put back.
catchKeepsRollback(before, after) == before
catchKeeps(before, after) == after

\* fetchPages, the cache-first step: if (cachedPages.length > 0) set({pages})
showCachedNever(ps, cached) == ps
showCached(ps, cached) == IF Len(cached) > 0 THEN cached ELSE ps

\* ---- lib/crypto (src/src/lib/crypto.ts) ---------------------------------
\* A byte of a buffer.  Buffers are sequences of bytes; what Web Crypto
\* computes is kept symbolic: a ciphertext byte remembers the key and the IV
\* it was made with and the data it hides.
NoKey == [password |-> "", salt |-> "", iterations |-> 0]

Byte(kind, key, iv, data) == [kind |-> kind, key |-> key, iv |-> iv, data |-> data]

\* A JavaScript string: base64 or hex text, or text in pieces, each piece
\* with the bytes of its UTF-8 form.  Three pieces are told apart: the byte
\* order mark U+FEFF, an unpaired surrogate, and U+FFFD, which replaces it.
Bom == "U+FEFF"
LoneSurrogate == "U+D800"
Replacement == "U+FFFD"

PlainText(s) == [enc |-> "text", body |-> <<Byte("utf8", NoKey, 0, s)>>]

\* The string s with a byte order mark in front, as text pasted from a file
\* saved with one has.
MarkedText(s) ==
    [enc |-> "text", body |-> <<Byte("utf8", NoKey, 0, Bom), Byte("utf8", NoKey, 0, s)>>]

EmptyText == [enc |-> "text", body |-> <<>>]

IvLength == 12
Iterations == 100000

\* PINs and secret values the handlers are called with.  No handler reads
\* an IV but through decryptData: one value stands for what
\* crypto.getRandomValues draws.
Pins == {"123456", "654321"}

\* PinModal.handleSubmit: if (pin.length < 6) setError(...); return
MinPinLength == 6

\* A PIN PinModal would turn down, and the PINs the exported store can be
\* called with.
ShortPin == "123"
StorePins == Pins \cup {ShortPin}
Plaintexts == {PlainText("s3cret"), MarkedText("hunter2")}
Ivs == {1}
SecretIds == 1..MaxSecrets
SecretName == "token"

\* new TextEncoder().encode(text): an unpaired surrogate is encoded as U+FFFD.
TextEncode(text) ==
    [k \in 1..Len(text.body) |->
        IF text.body[k].data = LoneSurrogate
        THEN [text.body[k] EXCEPT !.data = Replacement]
        ELSE text.body[k]]

\* new TextDecoder().decode(bytes): ignoreBOM is false, a byte order mark at
\* the start of the bytes is not part of the string.
TextDecode(bytes) ==
    [enc  |-> "text",
     body |-> IF Len(bytes) >= 1 /\ bytes[1].data = Bom THEN Tail(bytes) ELSE bytes]

\* hashPin: SHA-256 of the encoded PIN, written as lower-case hex.
hashPin(pin) == [enc |-> "hex", body |-> <<Byte("sha256", NoKey, 0, pin)>>]

\* deriveKey: PBKDF2 over the PIN with the fixed salt, for AES-GCM.
deriveKey(pin) == [password |-> pin, salt |-> "fixed-salt", iterations |-> Iterations]

\* crypto.getRandomValues(new Uint8Array(12)) drawing n
randomValues(n) == [k \in 1..IvLength |-> Byte("iv", NoKey, n, "")]

\* The 96-bit number an IV buffer holds (0 when the buffer is no IV).
IvValue(iv) ==
    IF Len(iv) = IvLength /\ \A k \in 1..Len(iv) : iv[k].kind = "iv" /\ iv[k].iv = iv[1].iv
    THEN iv[1].iv ELSE 0

\* crypto.subtle.encrypt({name: 'AES-GCM', iv}, key, bytes): the ciphertext
\* followed by the authentication tag.
gcmEncrypt(key, iv, bytes) ==
    [k \in 1..Len(bytes) |-> Byte("ct", key, IvValue(iv), bytes[k].data)]
        \o <<Byte("tag", key, IvValue(iv), "")>>

\* The same without the check of the authentication tag.
gcmDecryptUnauthenticated(key, iv, data) ==
    [ok |-> Len(data) >= 1,
     bytes |-> [k \in 1..(Len(data) - 1) |-> Byte("utf8", NoKey, 0, data[k].data)]]
\* crypto.subtle.decrypt({name: 'AES-GCM', iv}, key, data): rejects unless
\* the tag was made with this key and this IV over this ciphertext.
gcmDecrypt(key, iv, data) ==
    IF /\ Len(data) >= 1
       /\ IvValue(iv) # 0
       /\ data[Len(data)].kind = "tag"
       /\ \A k \in 1..Len(data) : data[k].key = key /\ data[k].iv = IvValue(iv)
       /\ \A k \in 1..(Len(data) - 1) : data[k].kind = "ct"
    THEN [ok |-> TRUE,
          bytes |-> [k \in 1..(Len(data) - 1) |-> Byte("utf8", NoKey, 0, data[k].data)]]
    ELSE [ok |-> FALSE, bytes |-> <<>>]

arrayBufferToBase64(buffer) == [enc |-> "base64", body |-> buffer]
base64ToArrayBuffer(base64) == base64.body

\* encryptData(data, pin) when getRandomValues draws n
encryptData(data, pin, n) ==
    LET key       == deriveKey(pin)
        iv        == randomValues(n)
        encrypted == gcmEncrypt(key, iv, TextEncode(data))
    IN  arrayBufferToBase64(iv \o encrypted)

\* decryptData(encryptedData, pin): ok is FALSE when the promise rejects.
decryptData(encryptedData, pin) ==
    LET key        == deriveKey(pin)
        combined   == base64ToArrayBuffer(encryptedData)
        iv         == SubSeq(combined, 1, IvLength)
        ciphertext == SubSeq(combined, IvLength + 1, Len(combined))
        decrypted  == gcmDecrypt(key, iv, ciphertext)
    IN  [ok |-> decrypted.ok, value |-> TextDecode(decrypted.bytes)]

\* ---- values of the KMS store and of SecretsList --------------------------
KmsOutcomes == {"ok", "failed"}

\* A handler call runs up to its first failure: fp names the point that
\* fails ("none" when nothing does, "user" when getUser() yields null), and
\* what comes after that point is not reached.
UserAt(fp) == IF fp = "user" THEN 0 ELSE 1
OutcomeAt(fp, point) == IF fp = point THEN "failed" ELSE "ok"

NoAction == [kind |-> "null", secretId |-> 0, value |-> EmptyText]

\* What a KMS handler reports about its run: op, id, pin, newPin and value
\* are the call, user what getUser() yields, outcome whether the promise
\* resolved or rejected, thrown the message it rejected with, flag the boolean
\* and result the text it resolved to, and log the store and remote calls
\* the handler made, in order.
KmsCall(op, id, pin, newPin, value, user, outcome, thrown, flag, result, log) ==
    [op |-> op, id |-> id, pin |-> pin, newPin |-> newPin, value |-> value,
     user |-> user, outcome |-> outcome, thrown |-> thrown, flag |-> flag,
     result |-> result, log |-> log]

\* One entry of such a log: the call, the secret it is about, how it ended.
Did(call, id, ok) == [call |-> call, id |-> id, ok |-> ok]

\* ---- construction -------------------------------------------------------
Init ==
    /\ todos = <<>>
    /\ localTodos = {}
    /\ remoteTodos = {}
    /\ inflight = {}
    /\ pinnedOrder = <<>>
    /\ localPrefs = {}
    /\ remotePrefs = {}
    /\ secrets = <<>>
    /\ hasPin = FALSE
    /\ remoteSecrets = <<>>
    /\ userPins = {}
    /\ nextSecret = 1
    /\ revealedSecrets = {}
    /\ pinModal = "null"
    /\ pendingAction = NoAction
    /\ kmsCall = KmsCall("init", 0, "", "", EmptyText, 0, "returned", NoError, FALSE,
                       EmptyText, <<>>)
    /\ pages = <<>>
    /\ currentPage = NullPage
    /\ loading = FALSE
    /\ error = NoError
    /\ localPages = {}
    /\ syncQueue = {}
    /\ nextKey = 1
    /\ remotePages = <<>>
    /\ online = TRUE
    /\ usedIds = {}
    /\ lastCall = Call("init", 0, 0, TRUE, "returned", 0, "none", NullPage)

\* ---- createPage(title, type, parentId) ----------------------------------
\* user: what getUser() yields; id: what randomUUID() yields; r: the outcome
\* of the insert when one is issued.
createPage(title, parentId, user, id, r) ==
    LET newPage == [id |-> id, title |-> title, parent_id |-> parentId,
                    is_pinned |-> FALSE]
        remote  == IF online THEN r ELSE "none"
    IN
    IF user = 0
    THEN \* throw new Error('User not authenticated') -> catch -> return null
         /\ error' = "User not authenticated"
         /\ loading' = FALSE
         /\ lastCall' = Call("createPage", 0, user, online, "returned", 0,
                             "none", NullPage)
         /\ UNCHANGED <<pages, currentPage, localPages, syncQueue, nextKey,
                        remotePages, online, usedIds>>
    ELSE /\ nextKey <= MaxKey
         /\ id \in PageIds \ usedIds
         /\ usedIds' = usedIds \cup {id}
         /\ pages' = IF remote = "failed"
                     THEN catchKeeps(pages, Append(pages, newPage))
                     ELSE Append(pages, newPage)
         /\ localPages' = dbPut(localPages, newPage)
         /\ syncQueue' = addToSyncQueue(syncQueue, nextKey, "create", "pages",
                                        newPage, remote)
         /\ nextKey' = nextKey + 1
         /\ remotePages' = IF remote = "ok" THEN remoteInsert(remotePages, newPage)
                           ELSE remotePages
         /\ error' = IF remote = "failed" THEN "RemoteError" ELSE NoError
         /\ loading' = FALSE
         /\ lastCall' = Call("createPage", id, user, online, "returned",
                             IF remote = "failed" THEN 0 ELSE id, remote, newPage)
         /\ UNCHANGED <<currentPage, online>>

\* The callers create 'Untitled Note' (HomePage, Sidebar), at the root or
\* under a page they know of.
CreatePage ==
    \/ createPage(NewTitle, 0, 0, 0, "failed")
    \/ \E parentId \in {0} \cup usedIds, id \in PageIds \ usedIds,
          r \in RemoteOutcomes :
            createPage(NewTitle, parentId, 1, id, r)

\* ---- updatePage(pageId, updates) ----------------------------------------
\* updates is {title}; r is the outcome of the remote update when issued.
updatePage(pageId, title, r) ==
    LET pageToUpdate == FindPage(pages, pageId)
        updatedPage  == [pageToUpdate EXCEPT !.title = title]
        remote       == IF online THEN r ELSE "none"
    IN
    IF pageToUpdate = NullPage
    THEN \* throw new Error('Page not found') -> catch -> re-throw
         /\ error' = "Page not found"
         /\ loading' = FALSE
         /\ lastCall' = Call("updatePage", pageId, 1, online, "threw", 0,
                             "none", NullPage)
         /\ UNCHANGED <<pages, currentPage, localPages, syncQueue, nextKey,
                        remotePages, online, usedIds>>
    ELSE /\ nextKey <= MaxKey
         /\ pages' = IF remote = "failed"
                     THEN catchKeeps(pages, ReplacePage(pages, pageId, updatedPage))
                     ELSE ReplacePage(pages, pageId, updatedPage)
         /\ currentPage' = IF currentPage.id = pageId THEN updatedPage
                           ELSE currentPage
         /\ localPages' = dbPut(localPages, updatedPage)
         /\ syncQueue' = addToSyncQueue(syncQueue, nextKey, "update", "pages",
                                        updatedPage, remote)
         /\ nextKey' = nextKey + 1
         /\ remotePages' = IF remote = "ok"
                           THEN remoteUpdate(remotePages, updatedPage, pageId)
                           ELSE remotePages
         /\ error' = IF remote = "failed" THEN "RemoteError" ELSE NoError
         /\ loading' = FALSE
         /\ lastCall' = Call("updatePage", pageId, 1, online,
                             IF remote = "failed" THEN "threw" ELSE "returned",
                             0, remote, updatedPage)
         /\ UNCHANGED <<online, usedIds>>

UpdatePage ==
    \E pageId \in PageIds, r \in RemoteOutcomes :
        updatePage(pageId, EditedTitle, r)

\* ---- deletePage(pageId) -------------------------------------------------
\* The same with the optimistic removal made ahead of the child check.
deletePageBlockedLate(pageId) ==
    /\ pages' = RemovePage(pages, pageId)
    /\ currentPage' = IF currentPage.id = pageId THEN NullPage ELSE currentPage
    /\ error' = "Cannot delete a page with child pages"
    /\ loading' = FALSE
    /\ lastCall' = Call("deletePage", pageId, 1, online, "returned", 0,
                        "none", NullPage)
    /\ UNCHANGED <<localPages, syncQueue, nextKey, remotePages, online, usedIds>>

\* The path through the child check that throws: the catch block sets the
\* error field and swallows the error, the promise resolves.
deletePageBlocked(pageId) ==
    /\ error' = "Cannot delete a page with child pages"
    /\ loading' = FALSE
    /\ lastCall' = Call("deletePage", pageId, 1, online, "returned", 0,
                        "none", NullPage)
    /\ UNCHANGED <<pages, currentPage, localPages, syncQueue, nextKey,
                   remotePages, online, usedIds>>

deletePage(pageId, r) ==
    LET remote == IF online THEN r ELSE "none"
    IN
    IF HasChildPages(pages, pageId)
    THEN deletePageBlocked(pageId)
    ELSE /\ nextKey <= MaxKey
         /\ pages' = IF remote = "failed"
                     THEN catchKeeps(pages, RemovePage(pages, pageId))
                     ELSE RemovePage(pages, pageId)
         /\ currentPage' = IF currentPage.id = pageId THEN NullPage
                           ELSE currentPage
         /\ localPages' = dbDelete(localPages, pageId)
         /\ syncQueue' = addToSyncQueue(syncQueue, nextKey, "delete", "pages",
                                        [id |-> pageId], remote)
         /\ nextKey' = nextKey + 1
         /\ remotePages' = IF remote = "ok" THEN remoteDelete(remotePages, pageId)
                           ELSE remotePages
         /\ error' = IF remote = "failed" THEN "RemoteError" ELSE NoError
         /\ loading' = FALSE
         /\ lastCall' = Call("deletePage", pageId, 1, online, "returned", 0,
                             remote, NullPage)
         /\ UNCHANGED <<online, usedIds>>

DeletePage ==
    \E pageId \in PageIds, r \in RemoteOutcomes : deletePage(pageId, r)

\* ---- togglePinPage(pageId) ----------------------------------------------
togglePinPage(pageId, r) ==
    LET page        == FindPage(pages, pageId)
        updatedPage == [page EXCEPT !.is_pinned = ~page.is_pinned]
        remote      == IF online THEN r ELSE "none"
    IN
    IF page = NullPage
    THEN \* set({error: 'Page not found'}); return
         /\ error' = "Page not found"
         /\ lastCall' = Call("togglePinPage", pageId, 1, online, "returned", 0,
                             "none", NullPage)
         /\ UNCHANGED <<pages, currentPage, loading, localPages, syncQueue,
                        nextKey, remotePages, online, usedIds>>
    ELSE /\ nextKey <= MaxKey
         /\ pages' = IF remote = "failed"
                     THEN catchKeeps(pages, ReplacePage(pages, pageId, updatedPage))
                     ELSE ReplacePage(pages, pageId, updatedPage)
         /\ currentPage' = IF currentPage.id = pageId THEN updatedPage
                           ELSE currentPage
         /\ localPages' = dbPut(localPages, updatedPage)
         /\ syncQueue' = addToSyncQueue(syncQueue, nextKey, "update", "pages",
                                        updatedPage, remote)
         /\ nextKey' = nextKey + 1
         /\ remotePages' = IF remote = "ok"
                           THEN remoteUpdate(remotePages, updatedPage, pageId)
                           ELSE remotePages
         /\ error' = IF remote = "failed" THEN "RemoteError" ELSE NoError
         /\ loading' = FALSE
         /\ lastCall' = Call("togglePinPage", pageId, 1, online, "returned", 0,
                             remote, updatedPage)
         /\ UNCHANGED <<online, usedIds>>

TogglePinPage ==
    \E pageId \in PageIds, r \in RemoteOutcomes : togglePinPage(pageId, r)

\* ---- fetchPages() -------------------------------------------------------
fetchPages(r) ==
    LET cachedPages == dbGetAll(localPages)
        shown       == showCached(pages, cachedPages)
        data        == remoteSelectAll(remotePages)
    IN
    /\ IF r = "ok"
       THEN \* tx.store.put(page) for every row, then set({pages: data})
            /\ localPages' = {l \in localPages : \A k \in 1..Len(data) :
                                                   data[k].id # l.id}
                             \cup Range(data)
            /\ pages' = data
            /\ error' = NoError
       ELSE \* if (error) throw error -> catch -> set({error})
            /\ localPages' = localPages
            /\ pages' = shown
            /\ error' = "RemoteError"
    /\ loading' = FALSE
    /\ lastCall' = Call("fetchPages", 0, 1, online, "returned", 0, r, NullPage)
    /\ UNCHANGED <<currentPage, syncQueue, nextKey, remotePages, online,
                   usedIds>>

FetchPages == \E r \in RemoteOutcomes : fetchPages(r)

\* ---- fetchPageById(pageId) ----------------------------------------------
\* .single() is an error when no row matches.
fetchPageById(pageId, r) ==
    LET cachedPage == dbGet(localPages, pageId)
        shown      == IF cachedPage # NullPage THEN cachedPage ELSE currentPage
        found      == HasRow(remotePages, pageId)
        data       == CHOOSE row \in Range(remotePages) : row.id = pageId
        outcome    == IF r = "ok" /\ found THEN "ok" ELSE "failed"
    IN
    /\ IF outcome = "ok"
       THEN /\ localPages' = dbPut(localPages, data)
            /\ currentPage' = data
            /\ error' = NoError
       ELSE /\ localPages' = localPages
            /\ currentPage' = shown
            /\ error' = "RemoteError"
    /\ loading' = FALSE
    /\ lastCall' = Call("fetchPageById", pageId, 1, online, "returned", 0,
                        outcome, NullPage)
    /\ UNCHANGED <<pages, syncQueue, nextKey, remotePages, online, usedIds>>

FetchPageById ==
    \E pageId \in PageIds, r \in RemoteOutcomes : fetchPageById(pageId, r)

\* ---- processSyncQueue() -------------------------------------------------
\* `for (const item of items)` from position k on.  The try block holds the
\* place of the remote sync ("Add your Supabase sync logic here": nothing is
\* issued) and store.delete(item.id); oks[k] says whether it ran through for
\* the k-th item.  The catch block logs and the loop goes on.
RECURSIVE drainLoop(_, _, _, _)
drainLoop(store, items, oks, k) ==
    IF k > Len(items) THEN [store |-> store, log |-> <<>>]
    ELSE LET item == items[k]
             rest == drainLoop(IF oks[k] THEN dbDelete(store, item.id) ELSE store,
                               items, oks, k + 1)
         IN  [store |-> rest.store,
              log   |-> <<[id |-> item.id, ok |-> oks[k]]>> \o rest.log]

\* All of it runs in one readwrite transaction on 'syncQueue', which keeps
\* every other writer of that store out until the loop is over.
processSyncQueue(store, oks) == drainLoop(store, dbGetAll(store), oks, 1)

\* ---- connectivity -------------------------------------------------------
\* window 'online' event: the listener awaits processSyncQueue().
GoOnline ==
    /\ ~online
    /\ online' = TRUE
    /\ \E oks \in [1..Cardinality(syncQueue) -> BOOLEAN] :
         LET done == processSyncQueue(syncQueue, oks)
         IN  /\ syncQueue' = done.store
             /\ lastCall' = CallWithLog("online", 0, 0, TRUE, "returned", 0,
                                        "none", NullPage, done.log)
    /\ UNCHANGED <<pages, currentPage, loading, error, localPages, nextKey,
                   remotePages, usedIds>>

GoOffline ==
    /\ online
    /\ online' = FALSE
    /\ lastCall' = Call("offline", 0, 0, FALSE, "returned", 0, "none", NullPage)
    /\ UNCHANGED <<pages, currentPage, loading, error, localPages, syncQueue,
                   nextKey, remotePages, usedIds>>

\* ---- page load ----------------------------------------------------------
\* Loading the app again rebuilds the zustand store from its initial values;
\* IndexedDB and Supabase keep their rows.
Reload ==
    /\ pages' = <<>>
    /\ currentPage' = NullPage
    /\ loading' = FALSE
    /\ error' = NoError
    /\ lastCall' = Call("reload", 0, 0, online, "returned", 0, "none", NullPage)
    /\ UNCHANGED <<localPages, syncQueue, nextKey, remotePages, online,
                   usedIds>>

\* The page-store handlers touch neither the pinned order nor the KMS.
Next ==
    \/ CreatePage /\ UNCHANGED <<pinVars, kmsVars, restVars>>
    \/ UpdatePage /\ UNCHANGED <<pinVars, kmsVars, restVars>>
    \/ DeletePage /\ UNCHANGED <<pinVars, kmsVars, restVars>>
    \/ TogglePinPage /\ UNCHANGED <<pinVars, kmsVars, restVars>>
    \/ FetchPages /\ UNCHANGED <<pinVars, kmsVars, restVars>>
    \/ FetchPageById /\ UNCHANGED <<pinVars, kmsVars, restVars>>
    \/ GoOnline /\ UNCHANGED <<pinVars, kmsVars, restVars>>
    \/ GoOffline /\ UNCHANGED <<pinVars, kmsVars, restVars>>
    \/ Reload /\ UNCHANGED <<pinVars, kmsVars, restVars>>

Spec == Init /\ [][Next]_vars

\* ==== pinned order =======================================================
\* The preference 'pinned_order': PagesState.pinnedOrder, its copy in the
\* IndexedDB store 'user_preferences' and its row in the Supabase table
\* 'user_preferences', with the Sidebar that reads and repairs it.
PinnedOrderKey == "pinned_order"

\* The arrays of page ids without repetition.
Orders ==
    {o \in UNION {[1..n -> PageIds] : n \in 0..MaxPages} :
        \A i, j \in 1..Len(o) : o[i] = o[j] => i = j}

\* cachedOrder?.value || []
cachedValue(store) ==
    IF \E r \in store : r.id = PinnedOrderKey
    THEN (CHOOSE r \in store : r.id = PinnedOrderKey).value
    ELSE <<>>

PrefRow(user, order) ==
    [user_id |-> user, preference_key |-> PinnedOrderKey, preference_value |-> order]

\* select('preference_value').eq('user_id').eq('preference_key').maybeSingle()
HasRemotePref(table, user) ==
    \E row \in table : row.user_id = user /\ row.preference_key = PinnedOrderKey

remotePrefValue(table, user) ==
    (CHOOSE row \in table :
        row.user_id = user /\ row.preference_key = PinnedOrderKey).preference_value

\* upsert(row, {onConflict: 'user_id,preference_key'})
remotePrefUpsert(table, row) ==
    {x \in table : ~(x.user_id = row.user_id /\ x.preference_key = row.preference_key)}
        \cup {row}

\* ---- fetchPinnedOrder() -------------------------------------------------
\* r is the outcome of the remote select when one is issued.
fetchPinnedOrder(user, r) ==
    LET cached == cachedValue(localPrefs)
        remote == IF online THEN r ELSE "none"
        fresh  == remote = "ok" /\ HasRemotePref(remotePrefs, user)
        order  == IF fresh THEN remotePrefValue(remotePrefs, user) ELSE cached
    IN
    IF user = 0
    THEN \* if (!user) return
         /\ lastCall' = Call("fetchPinnedOrder", 0, 0, online, "returned", 0,
                             "none", NullPage)
         /\ UNCHANGED <<pinnedOrder, localPrefs>>
    ELSE /\ pinnedOrder' = order
         /\ localPrefs' = IF fresh
                          THEN dbPut(localPrefs, [id |-> PinnedOrderKey, value |-> order])
                          ELSE localPrefs
         /\ lastCall' = Call("fetchPinnedOrder", 0, user, online, "returned", 0,
                             remote, NullPage)

FetchPinnedOrder ==
    /\ \E user \in {0, 1}, r \in RemoteOutcomes : fetchPinnedOrder(user, r)
    /\ UNCHANGED <<pages, currentPage, loading, error, localPages, syncQueue,
                   nextKey, remotePages, online, usedIds, remotePrefs>>

\* ---- reorderPinnedPages(newOrder) ---------------------------------------
\* r is the outcome of the remote upsert when one is issued; the handler
\* does not look at it.  op names the caller.
reorderPinnedPages(op, newOrder, user, r) ==
    LET remote == IF online THEN r ELSE "none"
        row    == PrefRow(user, newOrder)
    IN
    /\ pinnedOrder' = newOrder
    /\ localPrefs' = dbPut(localPrefs, [id |-> PinnedOrderKey, value |-> newOrder])
    /\ IF user = 0
       THEN \* if (!user) return
            /\ lastCall' = Call(op, 0, 0, online, "returned", 0, "none", NullPage)
            /\ UNCHANGED <<syncQueue, nextKey, remotePrefs>>
       ELSE /\ nextKey <= MaxKey
            /\ syncQueue' = addToSyncQueue(syncQueue, nextKey, "upsert",
                                           "user_preferences", row, remote)
            /\ nextKey' = nextKey + 1
            /\ remotePrefs' = IF remote = "ok"
                              THEN remotePrefUpsert(remotePrefs, row)
                              ELSE remotePrefs
            /\ lastCall' = Call(op, 0, user, online, "returned", 0, remote, NullPage)

\* ---- Sidebar ------------------------------------------------------------
\* pages.filter((page) => page.is_pinned), as ids
PinnedIds(ps) == {ps[k].id : k \in {j \in 1..Len(ps) : ps[j].is_pinned}}

\* pinnedOrder.filter((id) => pinnedPagesMap.has(id))
RECURSIVE validOrder(_, _)
validOrder(order, ps) ==
    IF order = <<>> THEN <<>>
    ELSE (IF Head(order) \in PinnedIds(ps) THEN <<Head(order)>> ELSE <<>>)
             \o validOrder(Tail(order), ps)

\* pinnedPages.filter((page) => !validOrder.includes(page.id)).map(id)
RECURSIVE missingPinned(_, _)
missingPinned(ps, valid) ==
    IF ps = <<>> THEN <<>>
    ELSE (IF Head(ps).is_pinned /\ Head(ps).id \notin Range(valid)
          THEN <<Head(ps).id>> ELSE <<>>)
             \o missingPinned(Tail(ps), valid)

\* [...validOrder, ...missing]
completeOrder(order, ps) ==
    validOrder(order, ps) \o missingPinned(ps, validOrder(order, ps))

\* What sortedPinnedPages can return, as ids.  With an empty pinnedOrder the
\* pinned pages come sorted by updated_at, which is not kept here: any
\* arrangement of them may be the result.
sortedPinnedPages(order, ps) ==
    IF PinnedIds(ps) = {} THEN {<<>>}
    ELSE IF Len(order) = 0
         THEN {o \in Orders : Range(o) = PinnedIds(ps)}
         ELSE {completeOrder(order, ps)}

\* Whether the useMemo schedules reorderPinnedPages(completeOrder).
SchedulesRepair(order, ps) ==
    /\ PinnedIds(ps) # {}
    /\ Len(order) # 0
    /\ Len(completeOrder(order, ps)) # Len(order)

\* A render of the Sidebar: the useMemo of sortedPinnedPages, and the
\* reorderPinnedPages(completeOrder) it defers with setTimeout(0).
RenderSidebar ==
    /\ IF SchedulesRepair(pinnedOrder, pages)
       THEN \E user \in {0, 1}, r \in RemoteOutcomes :
                reorderPinnedPages("sortedPinnedPages",
                                   completeOrder(pinnedOrder, pages), user, r)
       ELSE /\ lastCall' = Call("sortedPinnedPages", 0, 1, online, "returned", 0,
                                "none", NullPage)
            /\ UNCHANGED <<pinnedOrder, localPrefs, syncQueue, nextKey, remotePrefs>>
    /\ UNCHANGED <<pages, currentPage, loading, error, localPages, remotePages,
                   online, usedIds>>

\* newOrder.splice(oldIndex, 1); newOrder.splice(newIndex, 0, movedId)
IndexOf(order, id) == CHOOSE k \in 1..Len(order) : order[k] = id

arrayMove(order, oldIndex, newIndex) ==
    LET without == [k \in 1..(Len(order) - 1) |->
                        IF k < oldIndex THEN order[k] ELSE order[k + 1]]
    IN  [k \in 1..Len(order) |->
            IF k < newIndex THEN without[k]
            ELSE IF k = newIndex THEN order[oldIndex]
            ELSE without[k - 1]]

\* handleDragEnd({active, over}): the dragged and the target item are items
\* of the rendered list.
handleDragEnd(shown, active, over, user, r) ==
    LET currentOrder == IF Len(pinnedOrder) # 0 THEN pinnedOrder ELSE shown
    IN  /\ active # over
        /\ active \in Range(currentOrder)
        /\ over \in Range(currentOrder)
        /\ reorderPinnedPages("handleDragEnd",
                              arrayMove(currentOrder, IndexOf(currentOrder, active),
                                        IndexOf(currentOrder, over)),
                              user, r)

HandleDragEnd ==
    /\ \E shown \in sortedPinnedPages(pinnedOrder, pages) :
         \E active \in Range(shown), over \in Range(shown),
            user \in {0, 1}, r \in RemoteOutcomes :
                handleDragEnd(shown, active, over, user, r)
    /\ UNCHANGED <<pages, currentPage, loading, error, localPages, remotePages,
                   online, usedIds>>

\* The states the Sidebar is mounted in: some pages exist, synced and shown
\* (fetchPages has run), some of them pinned; either copy of the preference
\* may hold any order written earlier, on this device or on another, or
\* none.
StoredPage(id, pinned) ==
    [id |-> id, title |-> NewTitle, parent_id |-> 0, is_pinned |-> pinned]

RECURSIVE PagesOf(_, _, _)
PagesOf(ids, pinned, k) ==
    IF k > MaxPages THEN <<>>
    ELSE (IF k \in ids THEN <<StoredPage(k, k \in pinned)>> ELSE <<>>)
             \o PagesOf(ids, pinned, k + 1)

InitPinned ==
    /\ \E ids \in SUBSET PageIds :
         \E pinned \in SUBSET ids :
            /\ pages = PagesOf(ids, pinned, 1)
            /\ localPages = Range(PagesOf(ids, pinned, 1))
            /\ remotePages = PagesOf(ids, pinned, 1)
            /\ usedIds = ids
    /\ currentPage = NullPage
    /\ loading = FALSE
    /\ error = NoError
    /\ syncQueue = {}
    /\ nextKey = 1
    /\ online = TRUE
    /\ lastCall = Call("init", 0, 0, TRUE, "returned", 0, "none", NullPage)
    /\ todos = <<>>
    /\ localTodos = {}
    /\ remoteTodos = {}
    /\ inflight = {}
    /\ pinnedOrder = <<>>
    /\ localPrefs \in {{}} \cup {{[id |-> PinnedOrderKey, value |-> o]} : o \in Orders}
    /\ remotePrefs \in {{}} \cup {{PrefRow(1, o)} : o \in Orders}
    /\ secrets = <<>>
    /\ hasPin = FALSE
    /\ remoteSecrets = <<>>
    /\ userPins = {}
    /\ nextSecret = 1
    /\ revealedSecrets = {}
    /\ pinModal = "null"
    /\ pendingAction = NoAction
    /\ kmsCall = KmsCall("init", 0, "", "", EmptyText, 0, "returned", NoError, FALSE,
                       EmptyText, <<>>)

NextPinned ==
    \/ FetchPinnedOrder /\ UNCHANGED <<kmsVars, restVars>>
    \/ RenderSidebar /\ UNCHANGED <<kmsVars, restVars>>
    \/ HandleDragEnd /\ UNCHANGED <<kmsVars, restVars>>
    \/ TogglePinPage /\ UNCHANGED <<pinVars, kmsVars, restVars>>
    \/ GoOffline /\ UNCHANGED <<pinVars, kmsVars, restVars>>
    \/ GoOnline /\ UNCHANGED <<pinVars, kmsVars, restVars>>

SpecPinned == InitPinned /\ [][NextPinned]_vars

\* ==== KMS: store/kmsStore (src/unnamed/part_006) and SecretsList =========
\* KMSState.loading and KMSState.error are written by the handlers and read
\* by none of them; they are left out, and the message a handler rejects
\* with is kept in kmsCall.
PinRow(user, pin) == [user_id |-> user, pin_hash |-> hashPin(pin)]

HasPinRow(pins, user) == \E row \in pins : row.user_id = user

SecretRow(id, name, encrypted) ==
    [id |-> id, name |-> name, encrypted_data |-> encrypted]

\* update({encrypted_data}).eq('id', id).eq('user_id', user.id)
remoteSecretUpdate(table, id, encrypted) ==
    [k \in 1..Len(table) |->
        IF table[k].id = id THEN [table[k] EXCEPT !.encrypted_data = encrypted]
        ELSE table[k]]

\* update({pin_hash}).eq('user_id', user.id)
remotePinUpdate(pins, user, pin) ==
    {IF row.user_id = user THEN PinRow(user, pin) ELSE row : row \in pins}

\* ---- verifyPin(pin) -----------------------------------------------------
\* The value verifyPin resolves to; r is the outcome of its select.
\* The same passing any PIN once a record exists.
verifyPinAnyRecord(pins, pin, user, r) ==
    /\ user # 0
    /\ r = "ok"
    /\ HasPinRow(pins, user)
verifyPin(pins, pin, user, r) ==
    /\ user # 0
    /\ r = "ok"
    /\ \E row \in pins : row.user_id = user /\ row.pin_hash = hashPin(pin)

VerifyPin ==
    /\ \E pin \in Pins, fp \in {"none", "user", "select"} :
         kmsCall' = KmsCall("verifyPin", 0, pin, "", EmptyText, UserAt(fp),
                            "returned", NoError,
                            verifyPin(userPins, pin, UserAt(fp),
                                      OutcomeAt(fp, "select")),
                            EmptyText, <<Did("select", 0, fp # "select")>>)
    /\ UNCHANGED <<secrets, hasPin, remoteSecrets, userPins, nextSecret,
                   revealedSecrets, pinModal, pendingAction>>

\* ---- createPin(pin) -----------------------------------------------------
\* The upsert names no onConflict column, so it resolves conflicts on the
\* primary key id; the row carries no id, and a second row of the same user
\* breaks UNIQUE(user_id): the upsert then reports an error.
createPin(pins, has, pin, user, r) ==
    LET ok == user # 0 /\ r = "ok" /\ ~HasPinRow(pins, user)
    IN  [ok       |-> ok,
         userPins |-> IF ok THEN pins \cup {PinRow(user, pin)} ELSE pins,
         hasPin   |-> IF ok THEN TRUE ELSE has,
         thrown   |-> IF ok THEN NoError
                      ELSE IF user = 0 THEN "Not authenticated"
                      ELSE "PostgrestError"]

\* createPin called with a PIN of given.
CreatePinWith(given) ==
    /\ \E pin \in given, fp \in {"none", "upsert"} :
         LET run == createPin(userPins, hasPin, pin, UserAt(fp),
                              OutcomeAt(fp, "upsert"))
         IN  /\ userPins' = run.userPins
             /\ hasPin' = run.hasPin
             /\ kmsCall' = KmsCall("createPin", 0, pin, "", EmptyText, UserAt(fp),
                                   IF run.ok THEN "returned" ELSE "threw",
                                   run.thrown, FALSE, EmptyText, <<>>)
    /\ UNCHANGED <<secrets, remoteSecrets, nextSecret, revealedSecrets, pinModal,
                   pendingAction>>

\* The PINs PinModal hands on are no shorter than six characters.
CreatePin == CreatePinWith(Pins)

\* ---- checkHasPin() ------------------------------------------------------
checkHasPin(pins, user, r) == user # 0 /\ r = "ok" /\ HasPinRow(pins, user)

CheckHasPin ==
    /\ \E fp \in {"none", "select"} :
         /\ hasPin' = checkHasPin(userPins, UserAt(fp), OutcomeAt(fp, "select"))
         /\ kmsCall' = KmsCall("checkHasPin", 0, "", "", EmptyText, UserAt(fp),
                               "returned", NoError, FALSE, EmptyText,
                               <<Did("select", 0, fp # "select")>>)
    /\ UNCHANGED <<secrets, remoteSecrets, userPins, nextSecret, revealedSecrets,
                   pinModal, pendingAction>>

\* ---- fetchSecrets() -----------------------------------------------------
\* select('*').order('created_at', {ascending: false}): the table is kept
\* with the row created last in front.  r is the outcome of the select; a
\* failure is caught and leaves the list as it was.
fetchSecrets(list, table, user, r) ==
    IF user = 0 \/ r = "failed" THEN list ELSE table

FetchSecrets ==
    /\ \E fp \in {"none", "select"} :
         /\ secrets' = fetchSecrets(secrets, remoteSecrets, UserAt(fp),
                                    OutcomeAt(fp, "select"))
         /\ kmsCall' = KmsCall("fetchSecrets", 0, "", "", EmptyText, UserAt(fp),
                               "returned", NoError, FALSE, EmptyText,
                               <<Did("select", 0, fp # "select")>>)
    /\ UNCHANGED <<hasPin, remoteSecrets, userPins, nextSecret, revealedSecrets,
                   pinModal, pendingAction>>

\* ---- addSecret(name, value, pin) ----------------------------------------
\* The same sending the value as it is.
storedValuePlain(value, pin, n) == value
\* const encryptedValue = await encryptData(value, pin)
storedValue(value, pin, n) == encryptData(value, pin, n)

\* id is what gen_random_uuid() gives the row, n what getRandomValues
\* draws, ri the outcome of the insert and rf that of the select of the
\* fetchSecrets that follows it.
addSecret(table, list, id, value, pin, n, user, ri, rf) ==
    LET ok    == user # 0 /\ ri = "ok"
        after == IF ok
                 THEN <<SecretRow(id, SecretName, storedValue(value, pin, n))>>
                          \o table
                 ELSE table
    IN  [ok            |-> ok,
         remoteSecrets |-> after,
         secrets       |-> IF ok THEN fetchSecrets(list, after, user, rf) ELSE list,
         thrown        |-> IF ok THEN NoError
                           ELSE IF user = 0 THEN "Not authenticated"
                           ELSE "PostgrestError"]

\* SecretsList calls addSecret with a PIN that has passed its gate.
AddSecretWith(given) ==
    /\ nextSecret <= MaxSecrets
    /\ \E value \in Plaintexts, pin \in given, n \in Ivs,
          fp \in {"none", "user", "insert", "select"} :
         LET run == addSecret(remoteSecrets, secrets, nextSecret, value, pin, n,
                              UserAt(fp), OutcomeAt(fp, "insert"),
                              OutcomeAt(fp, "select"))
         IN  /\ verifyPin(userPins, pin, 1, "ok")
             /\ remoteSecrets' = run.remoteSecrets
             /\ secrets' = run.secrets
             /\ nextSecret' = IF run.ok THEN nextSecret + 1 ELSE nextSecret
             /\ kmsCall' = KmsCall("addSecret", nextSecret, pin, "", value,
                                   UserAt(fp),
                                   IF run.ok THEN "returned" ELSE "threw",
                                   run.thrown, FALSE, EmptyText,
                                   <<Did("insert", nextSecret, run.ok),
                                     Did("select", 0, fp # "select")>>)
    /\ UNCHANGED <<hasPin, userPins, revealedSecrets, pinModal, pendingAction>>

AddSecret == AddSecretWith(Pins)

\* ---- getSecret(id, pin) -------------------------------------------------
\* r is the outcome of the select(...).single().
getSecret(table, id, pin, r) ==
    IF r = "failed" \/ ~(\E k \in 1..Len(table) : table[k].id = id)
    THEN [ok |-> FALSE, value |-> EmptyText, thrown |-> "Secret not found"]
    ELSE LET row == table[CHOOSE k \in 1..Len(table) : table[k].id = id]
             dec == decryptData(row.encrypted_data, pin)
         IN  IF dec.ok THEN [ok |-> TRUE, value |-> dec.value, thrown |-> NoError]
             ELSE [ok |-> FALSE, value |-> EmptyText, thrown |-> "OperationError"]

GetSecretWith(given) ==
    /\ \E id \in SecretIds, pin \in given, fp \in {"none", "select"} :
         LET run == getSecret(remoteSecrets, id, pin, OutcomeAt(fp, "select"))
         IN  kmsCall' = KmsCall("getSecret", id, pin, "", EmptyText, 1,
                                IF run.ok THEN "returned" ELSE "threw",
                                run.thrown, FALSE, run.value,
                                <<Did("select", id, fp # "select")>>)
    /\ UNCHANGED <<secrets, hasPin, remoteSecrets, userPins, nextSecret,
                   revealedSecrets, pinModal, pendingAction>>

GetSecret == GetSecretWith(Pins)

\* ---- deleteSecret(id) ---------------------------------------------------
\* rd is the outcome of the delete, rf that of the select of fetchSecrets.
deleteSecret(table, list, id, user, rd, rf) ==
    LET ok    == rd = "ok"
        after == IF ok THEN SelectSeq(table, LAMBDA row : row.id # id) ELSE table
    IN  [ok            |-> ok,
         remoteSecrets |-> after,
         secrets       |-> IF ok THEN fetchSecrets(list, after, user, rf) ELSE list]

\* handleDelete(id) of a secret of the rendered list
DeleteSecret ==
    /\ \E k \in 1..Len(secrets), fp \in {"none", "delete", "select"} :
         LET id  == secrets[k].id
             run == deleteSecret(remoteSecrets, secrets, id, UserAt(fp),
                                 OutcomeAt(fp, "delete"), OutcomeAt(fp, "select"))
         IN  /\ remoteSecrets' = run.remoteSecrets
             /\ secrets' = run.secrets
             /\ kmsCall' = KmsCall("deleteSecret", id, "", "", EmptyText,
                                   UserAt(fp),
                                   IF run.ok THEN "returned" ELSE "threw",
                                   IF run.ok THEN NoError ELSE "PostgrestError",
                                   FALSE, EmptyText,
                                   <<Did("delete", id, run.ok),
                                     Did("select", 0, fp # "select")>>)
    /\ UNCHANGED <<hasPin, userPins, nextSecret, revealedSecrets, pinModal,
                   pendingAction>>

\* ---- updatePin(oldPin, newPin) ------------------------------------------
\* `for (const secret of store.secrets)` from position k on: list is the
\* store's list as updatePin found it, ivs[k] what getRandomValues draws for
\* the k-th secret and failAt the position whose remote update reports an
\* error (0 for none).  failed is the position the loop threw at.
\* The same going on with the next secret after a failure.
RECURSIVE rekeyLoopGoesOn(_, _, _, _, _, _, _)
rekeyLoopGoesOn(table, list, oldPin, newPin, ivs, failAt, k) ==
    IF k > Len(list) THEN [table |-> table, failed |-> 0, log |-> <<>>]
    ELSE LET secret  == list[k]
             dec     == decryptData(secret.encrypted_data, oldPin)
             enc     == encryptData(dec.value, newPin, ivs[k])
             written == dec.ok /\ failAt # k
             rest    == rekeyLoopGoesOn(IF written
                                        THEN remoteSecretUpdate(table, secret.id, enc)
                                        ELSE table,
                                        list, oldPin, newPin, ivs, failAt, k + 1)
         IN  [table  |-> rest.table,
              failed |-> IF written THEN rest.failed ELSE k,
              log    |-> <<Did("rekey", secret.id, written)>> \o rest.log]
RECURSIVE rekeyLoop(_, _, _, _, _, _, _)
rekeyLoop(table, list, oldPin, newPin, ivs, failAt, k) ==
    IF k > Len(list) THEN [table |-> table, failed |-> 0, log |-> <<>>]
    ELSE LET secret  == list[k]
             dec     == decryptData(secret.encrypted_data, oldPin)
             enc     == encryptData(dec.value, newPin, ivs[k])
             written == dec.ok /\ failAt # k
             rest    == rekeyLoop(remoteSecretUpdate(table, secret.id, enc),
                                  list, oldPin, newPin, ivs, failAt, k + 1)
         IN  IF written
             THEN [rest EXCEPT !.log = <<Did("rekey", secret.id, TRUE)>> \o @]
             ELSE [table  |-> table,
                   failed |-> k,
                   log    |-> <<Did("rekey", secret.id, FALSE)>>]

\* The rows of user_pins after the handler: the update of pin_hash is issued
\* once the loop is through; rp is its outcome.
\* The same issuing the update whatever the loop did.
pinHashWrittenFirst(pins, user, newPin, failed, rp) ==
    IF rp = "ok" THEN remotePinUpdate(pins, user, newPin) ELSE pins
pinHashWritten(pins, user, newPin, failed, rp) ==
    IF failed = 0 /\ rp = "ok" THEN remotePinUpdate(pins, user, newPin) ELSE pins

PartialRekey == "Failed to update some secrets. Changes may be partial."

\* rv is the outcome of verifyPin's select, loop what the for loop does when
\* it is reached, rf the outcome of the select of the closing fetchSecrets.
updatePin(oldPin, newPin, user, rv, loop, rp, rf) ==
    LET isValid == verifyPin(userPins, oldPin, user, rv)
    IN
    IF ~isValid
    THEN \* throw new Error('Invalid current PIN')
         /\ kmsCall' = KmsCall("updatePin", 0, oldPin, newPin, EmptyText, user,
                               "threw", "Invalid current PIN", FALSE, EmptyText,
                               <<Did("verifyPin", 0, FALSE)>>)
         /\ UNCHANGED <<secrets, remoteSecrets, userPins>>
    ELSE /\ remoteSecrets' = loop.table
         /\ userPins' = pinHashWritten(userPins, user, newPin, loop.failed, rp)
         /\ IF loop.failed # 0
            THEN /\ kmsCall' = KmsCall("updatePin", 0, oldPin, newPin, EmptyText,
                                       user, "threw", PartialRekey, FALSE,
                                       EmptyText, loop.log)
                 /\ UNCHANGED secrets
            ELSE IF rp = "failed"
            THEN /\ kmsCall' = KmsCall("updatePin", 0, oldPin, newPin, EmptyText,
                                       user, "threw", "PostgrestError", FALSE,
                                       EmptyText,
                                       loop.log \o <<Did("pin_hash", 0, FALSE)>>)
                 /\ UNCHANGED secrets
            ELSE /\ secrets' = fetchSecrets(secrets, loop.table, user, rf)
                 /\ kmsCall' = KmsCall("updatePin", 0, oldPin, newPin, EmptyText,
                                       user, "returned", NoError, TRUE, EmptyText,
                                       loop.log \o <<Did("pin_hash", 0, TRUE),
                                                     Did("select", 0, rf = "ok")>>)

UpdatePin ==
    /\ \E oldPin \in Pins, newPin \in Pins, ivs \in [1..Len(secrets) -> Ivs],
          fp \in {"none", "verify", "rekey", "pin_hash", "select"},
          k \in 0..Len(secrets) :
         /\ (fp = "rekey") = (k # 0)
         /\ \E loop \in {rekeyLoop(remoteSecrets, secrets, oldPin, newPin, ivs, k, 1)} :
              updatePin(oldPin, newPin, UserAt(fp), OutcomeAt(fp, "verify"), loop,
                        OutcomeAt(fp, "pin_hash"), OutcomeAt(fp, "select"))
    /\ UNCHANGED <<hasPin, nextSecret, revealedSecrets, pinModal, pendingAction>>

\* Loading the app again rebuilds the KMS store and SecretsList from their
\* initial values; Supabase keeps its rows.
ReloadKms ==
    /\ secrets' = <<>>
    /\ hasPin' = FALSE
    /\ revealedSecrets' = {}
    /\ pinModal' = "null"
    /\ pendingAction' = NoAction
    /\ kmsCall' = KmsCall("reload", 0, "", "", EmptyText, 0, "returned", NoError,
                          FALSE, EmptyText, <<>>)
    /\ UNCHANGED <<remoteSecrets, userPins, nextSecret>>

\* The KMS handlers touch neither the page store, IndexedDB nor the queue.
\* SpecKms: the vault as its callers use it day to day.
NextKms ==
    \/ VerifyPin /\ UNCHANGED <<pageVars, pinVars, restVars>>
    \/ CreatePin /\ UNCHANGED <<pageVars, pinVars, restVars>>
    \/ FetchSecrets /\ UNCHANGED <<pageVars, pinVars, restVars>>
    \/ AddSecret /\ UNCHANGED <<pageVars, pinVars, restVars>>
    \/ GetSecret /\ UNCHANGED <<pageVars, pinVars, restVars>>
    \/ DeleteSecret /\ UNCHANGED <<pageVars, pinVars, restVars>>
    \/ ReloadKms /\ UNCHANGED <<pageVars, pinVars, restVars>>

SpecKms == Init /\ [][NextKms]_vars

\* SpecStore: the handlers of the exported store called with any PIN.
NextStore ==
    \/ VerifyPin /\ UNCHANGED <<pageVars, pinVars, restVars>>
    \/ CreatePinWith(StorePins) /\ UNCHANGED <<pageVars, pinVars, restVars>>
    \/ AddSecretWith(StorePins) /\ UNCHANGED <<pageVars, pinVars, restVars>>
    \/ GetSecretWith(StorePins) /\ UNCHANGED <<pageVars, pinVars, restVars>>
    \/ ReloadKms /\ UNCHANGED <<pageVars, pinVars, restVars>>

SpecStore == Init /\ [][NextStore]_vars

\* SpecRekey: the vault under changes of the PIN.
NextRekey ==
    \/ CreatePin /\ UNCHANGED <<pageVars, pinVars, restVars>>
    \/ FetchSecrets /\ UNCHANGED <<pageVars, pinVars, restVars>>
    \/ AddSecret /\ UNCHANGED <<pageVars, pinVars, restVars>>
    \/ UpdatePin /\ UNCHANGED <<pageVars, pinVars, restVars>>
    \/ ReloadKms /\ UNCHANGED <<pageVars, pinVars, restVars>>

SpecRekey == Init /\ [][NextRekey]_vars

\* ==== SecretsList (src/unnamed/part_002) =================================
\* setPendingAction({action, secretId}); setPinModal(hasPin ? 'verify' : 'create')
startActionWithPin(action) ==
    /\ pendingAction' = action
    /\ pinModal' = IF hasPin THEN "verify" ELSE "create"

\* "Save Secret": startActionWithPin(handleAddSecret) with the form's value
SaveSecret ==
    /\ \E value \in Plaintexts :
         /\ startActionWithPin([kind |-> "add", secretId |-> 0, value |-> value])
         /\ kmsCall' = KmsCall("startActionWithPin", 0, "", "", value, 1,
                               "returned", NoError, FALSE, EmptyText, <<>>)
    /\ UNCHANGED <<secrets, hasPin, remoteSecrets, userPins, nextSecret,
                   revealedSecrets>>

IsRevealed(revealed, id) == \E e \in revealed : e.id = id

\* toggleSecretVisibility(secretId), for a secret of the rendered list
toggleSecretVisibility(secretId) ==
    IF IsRevealed(revealedSecrets, secretId)
    THEN /\ revealedSecrets' = {e \in revealedSecrets : e.id # secretId}
         /\ UNCHANGED <<pinModal, pendingAction>>
    ELSE /\ startActionWithPin([kind |-> "reveal", secretId |-> secretId,
                                value |-> EmptyText])
         /\ UNCHANGED revealedSecrets

ToggleSecretVisibility ==
    /\ \E k \in 1..Len(secrets) :
         /\ toggleSecretVisibility(secrets[k].id)
         /\ kmsCall' = KmsCall("toggleSecretVisibility", secrets[k].id, "", "",
                               EmptyText, 1, "returned", NoError, FALSE,
                               EmptyText, <<>>)
    /\ UNCHANGED <<secrets, hasPin, remoteSecrets, userPins, nextSecret>>

\* The same going on to the action when the PIN was not verified.
gatePassedUnverified(mode, isValid, created) == TRUE
\* Whether the try block gets as far as `await pendingAction.action(pin)`.
gatePassed(mode, isValid, created) ==
    IF mode = "verify" THEN isValid
    ELSE IF mode = "create" THEN created
    ELSE TRUE

\* finally { setPinModal(null); ... }
finallyClears(modal, ok) == "null"

\* handlePinSubmit(pin) of the rendered PinModal.  rg is the outcome of the
\* remote call of the gate (verifyPin's select or createPin's upsert), ra
\* that of the action's own remote call, rf that of the select of the
\* fetchSecrets addSecret ends with.
handlePinSubmit(pin, n, user, rg, ra, rf) ==
    LET isValid == verifyPin(userPins, pin, user, rg)
        created == createPin(userPins, hasPin, pin, user, rg)
        passed  == gatePassed(pinModal, isValid, created.ok)
        gateLog == IF pinModal = "verify" THEN <<Did("verifyPin", 0, isValid)>>
                   ELSE <<Did("createPin", 0, created.ok)>>
        added   == addSecret(remoteSecrets, secrets, nextSecret,
                             pendingAction.value, pin, n, user, ra, rf)
        got     == getSecret(remoteSecrets, pendingAction.secretId, pin, ra)
        isAdd   == pendingAction.kind = "add"
        ok      == passed /\ (isAdd \/ got.ok)
    IN
    /\ userPins' = IF pinModal = "create" THEN created.userPins ELSE userPins
    /\ hasPin' = IF pinModal = "create" THEN created.hasPin ELSE hasPin
    /\ IF ~passed
       THEN /\ kmsCall' = KmsCall("handlePinSubmit", pendingAction.secretId, pin,
                                  "", pendingAction.value, user, "threw",
                                  IF pinModal = "verify" THEN "Invalid PIN"
                                  ELSE created.thrown,
                                  FALSE, EmptyText, gateLog)
            /\ UNCHANGED <<secrets, remoteSecrets, nextSecret, revealedSecrets>>
       ELSE IF isAdd
       THEN \* handleAddSecret catches what addSecret throws
            /\ nextSecret <= MaxSecrets
            /\ remoteSecrets' = added.remoteSecrets
            /\ secrets' = added.secrets
            /\ nextSecret' = IF added.ok THEN nextSecret + 1 ELSE nextSecret
            /\ kmsCall' = KmsCall("handlePinSubmit", nextSecret, pin, "",
                                  pendingAction.value, user, "returned", NoError,
                                  FALSE, EmptyText,
                                  gateLog \o <<Did("addSecret", nextSecret, added.ok)>>)
            /\ UNCHANGED revealedSecrets
       ELSE \* handleRevealSecret re-throws what getSecret throws
            /\ revealedSecrets' =
                   IF got.ok
                   THEN {e \in revealedSecrets : e.id # pendingAction.secretId}
                            \cup {[id |-> pendingAction.secretId, value |-> got.value]}
                   ELSE revealedSecrets
            /\ kmsCall' = KmsCall("handlePinSubmit", pendingAction.secretId, pin,
                                  "", EmptyText, user,
                                  IF got.ok THEN "returned" ELSE "threw",
                                  got.thrown, FALSE, got.value,
                                  gateLog \o <<Did("getSecret", pendingAction.secretId,
                                                   got.ok)>>)
            /\ UNCHANGED <<secrets, remoteSecrets, nextSecret>>
    /\ pinModal' = finallyClears(pinModal, ok)
    /\ pendingAction' = IF finallyClears(pinModal, ok) = "null" THEN NoAction
                        ELSE pendingAction

HandlePinSubmit ==
    /\ pinModal # "null"
    /\ pendingAction # NoAction
    /\ \E pin \in Pins, n \in Ivs,
          fp \in {"none", "user", "gate", "action", "select"} :
         handlePinSubmit(pin, n, UserAt(fp), OutcomeAt(fp, "gate"),
                         OutcomeAt(fp, "action"), OutcomeAt(fp, "select"))

\* onCancel of the PinModal
CancelPinModal ==
    /\ pinModal # "null"
    /\ pinModal' = "null"
    /\ pendingAction' = NoAction
    /\ kmsCall' = KmsCall("onCancel", 0, "", "", EmptyText, 1, "returned", NoError,
                          FALSE, EmptyText, <<>>)
    /\ UNCHANGED <<secrets, hasPin, remoteSecrets, userPins, nextSecret,
                   revealedSecrets>>

NextSecretsList ==
    \/ CheckHasPin /\ UNCHANGED <<pageVars, pinVars, restVars>>
    \/ FetchSecrets /\ UNCHANGED <<pageVars, pinVars, restVars>>
    \/ SaveSecret /\ UNCHANGED <<pageVars, pinVars, restVars>>
    \/ ToggleSecretVisibility /\ UNCHANGED <<pageVars, pinVars, restVars>>
    \/ HandlePinSubmit /\ UNCHANGED <<pageVars, pinVars, restVars>>
    \/ CancelPinModal /\ UNCHANGED <<pageVars, pinVars, restVars>>
    \/ ReloadKms /\ UNCHANGED <<pageVars, pinVars, restVars>>

SpecSecretsList == Init /\ [][NextSecretsList]_vars

\* SpecVault: secrets added, re-keyed, revealed and hidden.
NextVault ==
    \/ CreatePin /\ UNCHANGED <<pageVars, pinVars, restVars>>
    \/ AddSecret /\ UNCHANGED <<pageVars, pinVars, restVars>>
    \/ UpdatePin /\ UNCHANGED <<pageVars, pinVars, restVars>>
    \/ ToggleSecretVisibility /\ UNCHANGED <<pageVars, pinVars, restVars>>
    \/ HandlePinSubmit /\ UNCHANGED <<pageVars, pinVars, restVars>>

SpecVault == Init /\ [][NextVault]_vars

\* SecretsList together with the PIN change of the secrets page: the calls
\* that reach the KMS store through a PinModal.  After a reload hasPin is
\* false until checkHasPin completes; the actions started in that window
\* are the ones this specification follows, so checkHasPin itself (part of
\* SpecSecretsList) is not among its steps.
NextGated ==
    \/ SaveSecret /\ UNCHANGED <<pageVars, pinVars, restVars>>
    \/ ToggleSecretVisibility /\ UNCHANGED <<pageVars, pinVars, restVars>>
    \/ HandlePinSubmit /\ UNCHANGED <<pageVars, pinVars, restVars>>
    \/ UpdatePin /\ UNCHANGED <<pageVars, pinVars, restVars>>
    \/ ReloadKms /\ UNCHANGED <<pageVars, pinVars, restVars>>

SpecGated == Init /\ [][NextGated]_vars

\* ==== TodoList (src/src/components/todo/TodoList.tsx) ====================
\* A TodoItem carries id, text and completed; page_id is the page the list is
\* mounted for, and content (the notes) is edited like text and left out with
\* the timestamps.  setError, the undo history and the pagination are not
\* read by the handlers below.  Each handler call runs as one step.
TodoIds == 1..MaxTodos
TodoText == "buy milk"
EditedText == "buy oat milk"

\* todos.map((todo) => (todo.id === todoId ? updatedTodo : todo))
ReplaceTodo(list, todoId, updatedTodo) ==
    [k \in 1..Len(list) |-> IF list[k].id = todoId THEN updatedTodo ELSE list[k]]

\* from('todo_items').update(fields).eq('id', todoId)
remoteTodoUpdate(table, todoId, updatedTodo) ==
    {IF row.id = todoId THEN updatedTodo ELSE row : row \in table}

\* What the four handlers share once the optimistic list is set: the write
\* to IndexedDB, the queued mutation, the remote call when online and, in the
\* catch block, setTodos(previousTodos).  r is the outcome of the remote call.
todoWrite(op, todoId, optimistic, stored, type, data, table, r) ==
    LET remote == IF online THEN r ELSE "none"
    IN  /\ nextKey <= MaxKey
        /\ todos' = IF remote = "failed" THEN todos ELSE optimistic
        /\ localTodos' = stored
        /\ syncQueue' = addToSyncQueue(syncQueue, nextKey, type, "todos", data, remote)
        /\ nextKey' = nextKey + 1
        /\ remoteTodos' = IF remote = "ok" THEN table ELSE remoteTodos
        /\ lastCall' = Call(op, todoId, 1, online, "returned", 0, remote, NullPage)

\* A handler that returns before it has set anything.
todoReturns(op, todoId) ==
    /\ lastCall' = Call(op, todoId, 1, online, "returned", 0, "none", NullPage)
    /\ UNCHANGED <<todoVars, syncQueue, nextKey, usedIds>>

\* handleCreateTodo(e) with the form's text; id is what randomUUID() yields.
HandleCreateTodo ==
    /\ \E text \in {TodoText, ""}, r \in RemoteOutcomes :
         IF text = ""
         THEN todoReturns("handleCreateTodo", 0)
         ELSE \E id \in TodoIds \ usedIds :
                LET optimisticTodo == [id |-> id, text |-> text, completed |-> FALSE]
                IN  /\ todoWrite("handleCreateTodo", id, <<optimisticTodo>> \o todos,
                                 dbPut(localTodos, optimisticTodo), "create",
                                 optimisticTodo, remoteTodos \cup {optimisticTodo}, r)
                    /\ usedIds' = usedIds \cup {id}
    /\ UNCHANGED <<pages, currentPage, loading, error, localPages, remotePages, online>>

\* handleToggleComplete(todoId)
HandleToggleComplete ==
    /\ \E todoId \in TodoIds, r \in RemoteOutcomes :
         IF ~\E k \in 1..Len(todos) : todos[k].id = todoId
         THEN todoReturns("handleToggleComplete", todoId)
         ELSE LET todoToUpdate == todos[CHOOSE k \in 1..Len(todos) : todos[k].id = todoId]
                  updatedTodo  == [todoToUpdate EXCEPT !.completed = ~@]
              IN  /\ todoWrite("handleToggleComplete", todoId,
                               ReplaceTodo(todos, todoId, updatedTodo),
                               dbPut(localTodos, updatedTodo), "update", updatedTodo,
                               remoteTodoUpdate(remoteTodos, todoId, updatedTodo), r)
                  /\ UNCHANGED usedIds
    /\ UNCHANGED <<pages, currentPage, loading, error, localPages, remotePages, online>>

\* handleSaveEdit(todoId) with editText as the edit field holds it
HandleSaveEdit ==
    /\ \E todoId \in TodoIds, editText \in {TodoText, EditedText, ""},
          r \in RemoteOutcomes :
         IF \/ ~\E k \in 1..Len(todos) : todos[k].id = todoId
            \/ editText = ""
            \/ \E k \in 1..Len(todos) : todos[k].id = todoId /\ todos[k].text = editText
         THEN todoReturns("handleSaveEdit", todoId)
         ELSE LET originalTodo == todos[CHOOSE k \in 1..Len(todos) : todos[k].id = todoId]
                  updatedTodo  == [originalTodo EXCEPT !.text = editText]
              IN  /\ todoWrite("handleSaveEdit", todoId,
                               ReplaceTodo(todos, todoId, updatedTodo),
                               dbPut(localTodos, updatedTodo), "update", updatedTodo,
                               remoteTodoUpdate(remoteTodos, todoId, updatedTodo), r)
                  /\ UNCHANGED usedIds
    /\ UNCHANGED <<pages, currentPage, loading, error, localPages, remotePages, online>>

\* handleDeleteTodo(todoId), for a todo of the rendered list
HandleDeleteTodo ==
    /\ \E k \in 1..Len(todos), r \in RemoteOutcomes :
         LET todoId == todos[k].id
         IN  /\ todoWrite("handleDeleteTodo", todoId,
                          SelectSeq(todos, LAMBDA todo : todo.id # todoId),
                          dbDelete(localTodos, todoId), "delete", [id |-> todoId],
                          {row \in remoteTodos : row.id # todoId}, r)
             /\ UNCHANGED usedIds
    /\ UNCHANGED <<pages, currentPage, loading, error, localPages, remotePages, online>>

NextTodos ==
    \/ HandleCreateTodo /\ UNCHANGED <<pinVars, kmsVars, inflight>>
    \/ HandleToggleComplete /\ UNCHANGED <<pinVars, kmsVars, inflight>>
    \/ HandleSaveEdit /\ UNCHANGED <<pinVars, kmsVars, inflight>>
    \/ HandleDeleteTodo /\ UNCHANGED <<pinVars, kmsVars, inflight>>
    \/ GoOffline /\ UNCHANGED <<pinVars, kmsVars, restVars>>
    \/ GoOnline /\ UNCHANGED <<pinVars, kmsVars, restVars>>

SpecTodos == Init /\ [][NextTodos]_vars

\* ==== handler calls that overlap ========================================
\* A handler is an async function: it runs up to an await, and what other
\* handlers do before it is resumed is seen by what it does next.  inflight
\* holds the calls that stand at an await: op is the handler, at the request
\* the call waits for, local the call's local variable (order, newOrder).  A step
\* performs the awaited request and runs the handler up to its next await.
Standing(op) == {c \in inflight : c.op = op}

Resumed(c, at, local) == (inflight \ {c}) \cup {[c EXCEPT !.at = at, !.local = local]}

\* fetchPinnedOrder() up to db.get('user_preferences', 'pinned_order')
FetchPinnedOrderCall ==
    /\ Standing("fetchPinnedOrder") = {}
    /\ \E user \in {0, 1} :
         IF user = 0
         THEN \* if (!user) return
              /\ lastCall' = Call("fetchPinnedOrder", 0, 0, online, "returned", 0,
                                  "none", NullPage)
              /\ UNCHANGED inflight
         ELSE /\ inflight' = inflight \cup
                     {[op |-> "fetchPinnedOrder", at |-> "db.get", local |-> <<>>]}
              /\ UNCHANGED lastCall
    /\ UNCHANGED <<pinnedOrder, localPrefs, remotePrefs, syncQueue, nextKey>>

\* fetchPinnedOrder() from one await to the next
FetchPinnedOrderResume ==
    /\ \E c \in Standing("fetchPinnedOrder") :
         LET done == /\ pinnedOrder' = c.local
                     /\ inflight' = inflight \ {c}
                     /\ lastCall' = Call("fetchPinnedOrder", 0, 1, online, "returned",
                                         0, "none", NullPage)
                     /\ UNCHANGED localPrefs
         IN
         \/ /\ c.at = "db.get"
            /\ inflight' = Resumed(c, "got", cachedValue(localPrefs))
            /\ UNCHANGED <<pinnedOrder, localPrefs, lastCall>>
         \/ /\ c.at = "got"
            /\ IF online
               THEN /\ inflight' = Resumed(c, "select", c.local)
                    /\ UNCHANGED <<pinnedOrder, localPrefs, lastCall>>
               ELSE done
         \/ /\ c.at = "select"
            /\ \E r \in {"ok", "failed"} :
                 IF r = "ok" /\ HasRemotePref(remotePrefs, 1)
                 THEN inflight' = Resumed(c, "db.put", remotePrefValue(remotePrefs, 1))
                 ELSE inflight' = Resumed(c, "set", c.local)
            /\ UNCHANGED <<pinnedOrder, localPrefs, lastCall>>
         \/ /\ c.at = "db.put"
            /\ localPrefs' = dbPut(localPrefs, [id |-> PinnedOrderKey, value |-> c.local])
            /\ inflight' = Resumed(c, "set", c.local)
            /\ UNCHANGED <<pinnedOrder, lastCall>>
         \/ /\ c.at = "set"
            /\ done
    /\ UNCHANGED <<remotePrefs, syncQueue, nextKey>>

\* reorderPinnedPages(newOrder) up to db.put('user_preferences', ...).  Its
\* callers (the Sidebar's handleDragEnd and sortedPinnedPages) pass an
\* arrangement of the ids of the pinned pages.
ReorderPinnedPagesCall ==
    /\ Standing("reorderPinnedPages") = {}
    /\ \E newOrder \in {o \in Orders : Range(o) = {p.id : p \in {q \in Range(pages) : q.is_pinned}}} :
         /\ pinnedOrder' = newOrder
         /\ inflight' = inflight \cup
                {[op |-> "reorderPinnedPages", at |-> "db.put", local |-> newOrder]}
    /\ UNCHANGED <<localPrefs, remotePrefs, syncQueue, nextKey, lastCall>>

\* reorderPinnedPages(newOrder) from one await to the next
ReorderPinnedPagesResume ==
    /\ \E c \in Standing("reorderPinnedPages") :
         LET done(user, remote) ==
                 /\ inflight' = inflight \ {c}
                 /\ lastCall' = Call("reorderPinnedPages", 0, user, online, "returned",
                                     0, remote, NullPage)
         IN
         \/ /\ c.at = "db.put"
            /\ localPrefs' = dbPut(localPrefs, [id |-> PinnedOrderKey, value |-> c.local])
            /\ inflight' = Resumed(c, "getUser", c.local)
            /\ UNCHANGED <<remotePrefs, syncQueue, nextKey, lastCall>>
         \/ /\ c.at = "getUser"
            /\ \E user \in {0, 1} :
                 IF user = 0
                 THEN \* if (!user) return
                      /\ done(0, "none")
                      /\ UNCHANGED <<localPrefs, remotePrefs, syncQueue, nextKey>>
                 ELSE /\ nextKey <= MaxKey
                      /\ syncQueue' = addToSyncQueue(syncQueue, nextKey, "upsert",
                                                     "user_preferences",
                                                     PrefRow(1, c.local), "none")
                      /\ nextKey' = nextKey + 1
                      /\ IF online
                         THEN /\ inflight' = Resumed(c, "upsert", c.local)
                              /\ UNCHANGED lastCall
                         ELSE done(1, "none")
                      /\ UNCHANGED <<localPrefs, remotePrefs>>
         \/ /\ c.at = "upsert"
            /\ \E r \in {"ok", "failed"} :
                 /\ remotePrefs' = IF r = "ok"
                                   THEN remotePrefUpsert(remotePrefs, PrefRow(1, c.local))
                                   ELSE remotePrefs
                 /\ done(1, r)
            /\ UNCHANGED <<localPrefs, syncQueue, nextKey>>
    /\ UNCHANGED pinnedOrder

\* What the steps on the pinned order leave alone.
pagesKept == <<pages, currentPage, loading, error, localPages, remotePages, online,
               usedIds>>

NextPinnedOverlap ==
    \/ FetchPinnedOrderCall /\ UNCHANGED <<pagesKept, kmsVars, todoVars>>
    \/ FetchPinnedOrderResume /\ UNCHANGED <<pagesKept, kmsVars, todoVars>>
    \/ ReorderPinnedPagesCall /\ UNCHANGED <<pagesKept, kmsVars, todoVars>>
    \/ ReorderPinnedPagesResume /\ UNCHANGED <<pagesKept, kmsVars, todoVars>>
    \/ GoOffline /\ UNCHANGED <<pinVars, kmsVars, restVars>>

SpecPinnedOverlap == InitPinned /\ [][NextPinnedOverlap]_vars

\* ---- createPage and deletePage, await by await -------------------------
\* createPage(title, type, parentId) up to its first await,
\* supabase.auth.getUser(); the local is the page the call is building.
CreatePageCall ==
    /\ Standing("createPage") = {}
    /\ \E parentId \in {0} \cup {q.id : q \in Range(pages)} :
         inflight' = inflight \cup
             {[op |-> "createPage", at |-> "getUser",
               local |-> [NullPage EXCEPT !.title = NewTitle, !.parent_id = parentId]]}
    /\ loading' = TRUE
    /\ error' = NoError
    /\ UNCHANGED <<pages, currentPage, localPages, syncQueue, nextKey, remotePages,
                   online, usedIds, lastCall>>

\* createPage from one await to the next
CreatePageResume ==
    /\ \E c \in Standing("createPage") :
         LET done(user, value, remote, thrown) ==
                 /\ inflight' = inflight \ {c}
                 /\ error' = IF thrown = NoError THEN error ELSE thrown
                 /\ loading' = FALSE
                 /\ lastCall' = Call("createPage", c.local.id, user, online,
                                     "returned", value, remote, c.local)
         IN
         \/ /\ c.at = "getUser"
            /\ \E user \in {0, 1} :
                 IF user = 0
                 THEN /\ done(0, 0, "none", "User not authenticated")
                      /\ UNCHANGED <<pages, usedIds>>
                 ELSE \E id \in PageIds \ usedIds :
                        /\ usedIds' = usedIds \cup {id}
                        /\ pages' = Append(pages, [c.local EXCEPT !.id = id])
                        /\ inflight' = Resumed(c, "db.add", [c.local EXCEPT !.id = id])
                        /\ UNCHANGED <<error, loading, lastCall>>
            /\ UNCHANGED <<localPages, syncQueue, nextKey, remotePages>>
         \/ /\ c.at = "db.add"
            /\ localPages' = dbPut(localPages, c.local)
            /\ inflight' = Resumed(c, "addToSyncQueue", c.local)
            /\ UNCHANGED <<pages, usedIds, error, loading, lastCall, syncQueue,
                           nextKey, remotePages>>
         \/ /\ c.at = "addToSyncQueue"
            /\ nextKey <= MaxKey
            /\ syncQueue' = addToSyncQueue(syncQueue, nextKey, "create", "pages",
                                           c.local, "none")
            /\ nextKey' = nextKey + 1
            /\ IF online
               THEN /\ inflight' = Resumed(c, "insert", c.local)
                    /\ UNCHANGED <<error, loading, lastCall>>
               ELSE done(1, c.local.id, "none", NoError)
            /\ UNCHANGED <<pages, usedIds, localPages, remotePages>>
         \/ /\ c.at = "insert"
            /\ \E r \in {"ok", "failed"} :
                 /\ remotePages' = IF r = "ok" THEN remoteInsert(remotePages, c.local)
                                   ELSE remotePages
                 /\ done(1, IF r = "ok" THEN c.local.id ELSE 0, r,
                         IF r = "ok" THEN NoError ELSE "RemoteError")
            /\ UNCHANGED <<pages, usedIds, localPages, syncQueue, nextKey>>
    /\ UNCHANGED <<currentPage, online>>

\* deletePage(pageId) up to its first await: the child check and the removal
\* from the projection
DeletePageCall ==
    /\ Standing("deletePage") = {}
    /\ \E pageId \in {q.id : q \in Range(pages)} :
         IF HasChildPages(pages, pageId)
         THEN deletePageBlocked(pageId) /\ UNCHANGED inflight
         ELSE /\ pages' = RemovePage(pages, pageId)
              /\ currentPage' = IF currentPage.id = pageId THEN NullPage
                                ELSE currentPage
              /\ loading' = TRUE
              /\ error' = NoError
              /\ inflight' = inflight \cup
                     {[op |-> "deletePage", at |-> "db.delete",
                       local |-> [NullPage EXCEPT !.id = pageId]]}
              /\ UNCHANGED <<localPages, syncQueue, nextKey, remotePages, online,
                             usedIds, lastCall>>

\* deletePage from one await to the next
DeletePageResume ==
    /\ \E c \in Standing("deletePage") :
         LET done(remote, thrown) ==
                 /\ inflight' = inflight \ {c}
                 /\ error' = IF thrown = NoError THEN error ELSE thrown
                 /\ loading' = FALSE
                 /\ lastCall' = Call("deletePage", c.local.id, 1, online, "returned",
                                     0, remote, NullPage)
         IN
         \/ /\ c.at = "db.delete"
            /\ localPages' = dbDelete(localPages, c.local.id)
            /\ inflight' = Resumed(c, "addToSyncQueue", c.local)
            /\ UNCHANGED <<error, loading, lastCall, syncQueue, nextKey, remotePages>>
         \/ /\ c.at = "addToSyncQueue"
            /\ nextKey <= MaxKey
            /\ syncQueue' = addToSyncQueue(syncQueue, nextKey, "delete", "pages",
                                           [id |-> c.local.id], "none")
            /\ nextKey' = nextKey + 1
            /\ IF online
               THEN /\ inflight' = Resumed(c, "delete", c.local)
                    /\ UNCHANGED <<error, loading, lastCall>>
               ELSE done("none", NoError)
            /\ UNCHANGED <<localPages, remotePages>>
         \/ /\ c.at = "delete"
            /\ \E r \in {"ok", "failed"} :
                 /\ remotePages' = IF r = "ok" THEN remoteDelete(remotePages, c.local.id)
                                   ELSE remotePages
                 /\ done(r, IF r = "ok" THEN NoError ELSE "RemoteError")
            /\ UNCHANGED <<localPages, syncQueue, nextKey>>
    /\ UNCHANGED <<pages, currentPage, online, usedIds>>

NextPagesOverlap ==
    \/ CreatePageCall /\ UNCHANGED <<pinVars, kmsVars, todoVars>>
    \/ CreatePageResume /\ UNCHANGED <<pinVars, kmsVars, todoVars>>
    \/ DeletePageCall /\ UNCHANGED <<pinVars, kmsVars, todoVars>>
    \/ DeletePageResume /\ UNCHANGED <<pinVars, kmsVars, todoVars>>
    \/ GoOffline /\ UNCHANGED <<pinVars, kmsVars, restVars>>

SpecPagesOverlap == InitPinned /\ [][NextPagesOverlap]_vars

\* ---- processSyncQueue, await by await ----------------------------------
\* The same loop with the whole store cleared at an item.
drainStepClears(store, item, ok) == {}
\* One turn of the loop of processSyncQueue: await store.delete(item.id); ok
\* says whether the delete ran through (the catch block logs and goes on).
drainStep(store, item, ok) == IF ok THEN dbDelete(store, item.id) ELSE store

\* The 'online' listener calls processSyncQueue(), which runs up to the
\* await of store.getAll(): the local holds the items read and the log of
\* the loop.
ProcessSyncQueueCall ==
    /\ ~online
    /\ online' = TRUE
    /\ Standing("processSyncQueue") = {}
    /\ inflight' = inflight \cup
           {[op |-> "processSyncQueue", at |-> "delete",
             local |-> [items |-> dbGetAll(syncQueue), log |-> <<>>]]}
    /\ UNCHANGED <<pages, currentPage, loading, error, localPages, syncQueue, nextKey,
                   remotePages, usedIds, lastCall>>

\* processSyncQueue from one await to the next.  Other handlers run between
\* two turns of the loop; their db.add on 'syncQueue' is let in there, which
\* is more than the readwrite transaction of the loop allows.
ProcessSyncQueueResume ==
    /\ \E c \in Standing("processSyncQueue") :
         IF c.local.items = <<>>
         THEN /\ inflight' = inflight \ {c}
              /\ lastCall' = CallWithLog("online", 0, 0, online, "returned", 0, "none",
                                         NullPage, c.local.log)
              /\ UNCHANGED syncQueue
         ELSE \E ok \in BOOLEAN :
                LET item == Head(c.local.items)
                IN  /\ syncQueue' = drainStep(syncQueue, item, ok)
                    /\ inflight' = Resumed(c, "delete",
                                       [items |-> Tail(c.local.items),
                                        log   |-> Append(c.local.log,
                                                         [id |-> item.id, ok |-> ok])])
                    /\ UNCHANGED lastCall
    /\ UNCHANGED <<pages, currentPage, loading, error, localPages, nextKey,
                   remotePages, online, usedIds>>

NextDrain ==
    \/ ProcessSyncQueueCall /\ UNCHANGED <<pinVars, kmsVars, todoVars>>
    \/ ProcessSyncQueueResume /\ UNCHANGED <<pinVars, kmsVars, todoVars>>
    \/ CreatePage /\ UNCHANGED <<pinVars, kmsVars, restVars>>
    \/ UpdatePage /\ UNCHANGED <<pinVars, kmsVars, restVars>>
    \/ DeletePage /\ UNCHANGED <<pinVars, kmsVars, restVars>>
    \/ GoOffline /\ UNCHANGED <<pinVars, kmsVars, restVars>>

SpecDrain == Init /\ [][NextDrain]_vars

\* ==== properties =========================================================
WriteOps == {"createPage", "updatePage", "deletePage", "togglePinPage"}

\* The kind of mutation a write handler queues.
KindOf(op) == CASE op = "createPage" -> "create"
                [] op = "deletePage" -> "delete"
                [] OTHER             -> "update"

\* Whether call c, made in the current state, gets past its own checks and
\* performs its write: a signed-in user for createPage, a page of the
\* projection for updatePage and togglePinPage, no child in the projection
\* for deletePage.
Performs(c) ==
    CASE c.op = "createPage" -> c.user # 0
      [] c.op = "deletePage" -> ~\E k \in 1..Len(pages) : pages[k].parent_id = c.id
      [] OTHER               -> \E k \in 1..Len(pages) : pages[k].id = c.id

\* The record call c writes, given the current projection.
WrittenRecord(c) ==
    LET old == CHOOSE q \in Range(pages) : q.id = c.id
    IN  CASE c.op = "createPage"    -> c.rec
          [] c.op = "updatePage"    -> [old EXCEPT !.title = EditedTitle]
          [] c.op = "togglePinPage" -> [old EXCEPT !.is_pinned = ~old.is_pinned]
          [] OTHER                  -> NullPage

\* The payload of the mutation call c queues.
Payload(c) == IF c.op = "deletePage" THEN [id |-> c.id] ELSE WrittenRecord(c)

\* The Local Store 'pages' collection as call c leaves it.
LocalAfter(c) ==
    IF c.op = "deletePage" THEN {l \in localPages : l.id # c.id}
    ELSE {l \in localPages : l.id # c.id} \cup {WrittenRecord(c)}

\* The projection as call c leaves it.
ProjectionAfter(c) ==
    CASE c.op = "createPage" -> pages \o <<WrittenRecord(c)>>
      [] c.op = "deletePage" ->
            SelectSeq(pages, LAMBDA q : q.id # c.id)
      [] OTHER ->
            [k \in 1..Len(pages) |->
                IF pages[k].id = c.id THEN WrittenRecord(c) ELSE pages[k]]

\* The queue has gained exactly one mutation, of the kind and with the
\* payload of call c.
QueuedExactlyOne(c) ==
    /\ syncQueue \subseteq syncQueue'
    /\ \E m \in syncQueue' \ syncQueue :
         /\ syncQueue' \ syncQueue = {m}
         /\ \A n \in syncQueue : n.id < m.id
         /\ m.type = KindOf(c.op)
         /\ m.table = "pages"
         /\ m.data = Payload(c)

\* C1: processSyncQueue visits the queued mutations in ascending key
\* (enqueue) order: a drain visits every queued mutation once, and never a
\* mutation before one with a smaller key.
C1_DrainInEnqueueOrder ==
    [][lastCall'.op = "online" =>
         LET log == lastCall'.log
         IN  /\ {log[k].id : k \in 1..Len(log)} = {m.id : m \in syncQueue}
             /\ \A i, j \in 1..Len(log) : i < j => log[i].id < log[j].id]_vars

C1_Witness ==
    /\ lastCall.op = "online"
    /\ Len(lastCall.log) >= 2
    /\ lastCall.log[1].id < lastCall.log[2].id

\* C2: once a queued mutation has failed in a drain, no mutation with a
\* larger key is attempted or removed in that drain, and the failed one
\* stays queued.
C2_StopsAtFirstFailure ==
    lastCall.op = "online" =>
        \A k \in 1..Len(lastCall.log) :
            ~lastCall.log[k].ok =>
                /\ k = Len(lastCall.log)
                /\ \E m \in syncQueue : m.id = lastCall.log[k].id

\* C3: a mutation leaves the queue only when its remote operation has been
\* confirmed successful.
C3_RemovedOnlyWhenConfirmed ==
    [][\A m \in syncQueue \ syncQueue' : m.inline = "ok"]_vars

\* C4: a page write performed offline leaves the Local Store reflecting the
\* write and exactly one more queued mutation of the matching kind carrying
\* the record, and issues no remote write.
C4_OfflineWriteIsLocalAndQueued ==
    [][(lastCall'.op \in WriteOps /\ ~online /\ Performs(lastCall')) =>
         /\ localPages' = LocalAfter(lastCall')
         /\ QueuedExactlyOne(lastCall')
         /\ lastCall'.remote = "none"
         /\ remotePages' = remotePages]_vars

C4_Witness ==
    /\ lastCall.op = "deletePage"
    /\ ~lastCall.online
    /\ error = NoError
    /\ \E m \in syncQueue : m.type = "delete" /\ m.data.id = lastCall.id
    /\ \E m \in syncQueue : m.type = "create" /\ m.data.id = lastCall.id

\* The last queued mutation of the page that m is about.
LastForPage(m, queue) == \A n \in queue : n.data.id = m.data.id => n.id <= m.id

\* The remote table shows what mutation m records.
ReflectedRemotely(m, table) ==
    IF m.type = "delete" THEN ~HasRow(table, m.data.id)
    ELSE m.data \in Range(table)

\* C5: when the became-online drain has run through, no mutation is left
\* queued and every mutation queued offline is reflected remotely.
C5_DrainSyncsOfflineWrites ==
    [][(/\ lastCall'.op = "online"
        /\ \A k \in 1..Len(lastCall'.log) : lastCall'.log[k].ok) =>
         /\ syncQueue' = {}
         /\ \A m \in syncQueue :
              (m.inline = "none" /\ LastForPage(m, syncQueue)) =>
                  ReflectedRemotely(m, remotePages')]_vars

\* C6: deletePage rejects towards its caller exactly when the projection
\* holds a child of the page.
C6_DeleteRejectsIffChild ==
    [][lastCall'.op = "deletePage" =>
         (lastCall'.outcome = "threw" <=>
            \E k \in 1..Len(pages) : pages[k].parent_id = lastCall'.id)]_vars

\* C7: a deletePage blocked by a child in the projection changes neither the
\* projection, currentPage, the Local Store nor the queue, and issues no
\* remote delete.
C7_BlockedDeleteChangesNothing ==
    [][(/\ lastCall'.op = "deletePage"
        /\ \E k \in 1..Len(pages) : pages[k].parent_id = lastCall'.id) =>
         /\ UNCHANGED <<pages, currentPage, localPages, syncQueue, remotePages>>
         /\ lastCall'.remote = "none"]_vars

C7_Witness ==
    /\ lastCall.op = "deletePage"
    /\ \E k \in 1..Len(pages) : pages[k].parent_id = lastCall.id
    /\ \E k \in 1..Len(pages) : pages[k].id = lastCall.id
    /\ error = "Cannot delete a page with child pages"

\* C8: when the immediate remote write of a page write fails, the
\* optimistic projection, the Local Store change and the queued mutation
\* stand as applied.
C8_RemoteFailureKeepsLocalWrite ==
    [][(lastCall'.op \in WriteOps /\ lastCall'.remote = "failed") =>
         /\ pages' = ProjectionAfter(lastCall')
         /\ localPages' = LocalAfter(lastCall')
         /\ QueuedExactlyOne(lastCall')]_vars

C8_Witness ==
    /\ lastCall.op = "updatePage"
    /\ lastCall.remote = "failed"
    /\ lastCall.online
    /\ error = "RemoteError"
    /\ \E k \in 1..Len(pages) :
         pages[k].id = lastCall.id /\ pages[k].title = EditedTitle

\* C9: a page write whose local part went through succeeds for its caller
\* whatever the remote write did: createPage resolves to the new id,
\* updatePage resolves.
C9_RemoteFailureNotSurfaced ==
    [][/\ (lastCall'.op = "createPage" /\ Performs(lastCall')) =>
            (lastCall'.outcome = "returned" /\ lastCall'.value = lastCall'.id
             /\ lastCall'.id \in PageIds)
       /\ (lastCall'.op = "updatePage" /\ Performs(lastCall')) =>
            lastCall'.outcome = "returned"]_vars

\* C10: a fetchPages whose remote fetch fails leaves the projection holding
\* the pages cached in the Local Store, the Local Store as it was, and the
\* error in the store's error field.
C10_FailedFetchShowsCache ==
    [][(lastCall'.op = "fetchPages" /\ lastCall'.remote = "failed") =>
         /\ Range(pages') = localPages
         /\ Len(pages') = Cardinality(localPages)
         /\ localPages' = localPages
         /\ error' # NoError]_vars

C10_Witness ==
    /\ lastCall.op = "fetchPages"
    /\ lastCall.remote = "failed"
    /\ Len(pages) >= 2
    /\ Range(pages) = localPages
    /\ error = "RemoteError"

\* C20: updatePage for an id the Local Store does not hold rejects with
\* 'Page not found' and changes nothing: the projection, currentPage, the
\* Local Store, the queue and the remote table keep their values and no
\* remote update is issued.
C20_UnknownPageUpdateChangesNothing ==
    [][(/\ lastCall'.op = "updatePage"
        /\ \A p \in localPages : p.id # lastCall'.id) =>
         /\ lastCall'.outcome = "threw"
         /\ error' = "Page not found"
         /\ UNCHANGED <<pages, currentPage, localPages, syncQueue, remotePages>>
         /\ lastCall'.remote = "none"]_vars

C20_Witness ==
    /\ lastCall.op = "updatePage"
    /\ lastCall.outcome = "threw"
    /\ error = "Page not found"
    /\ localPages # {}
    /\ \A p \in localPages : p.id # lastCall.id

\* The order holds exactly the ids of the pinned pages, each once.
ExactlyPinned(order, ps) ==
    /\ Range(order) = PinnedIds(ps)
    /\ \A i, j \in 1..Len(order) : order[i] = order[j] => i = j

\* The ids of stored that are in order stand in order as they do in stored,
\* ahead of every id that stored lacks.
KeepsStoredOrder(order, stored) ==
    \A i, j \in 1..Len(order) :
        /\ (/\ order[i] \in Range(stored) /\ order[j] \in Range(stored)
            /\ IndexOf(stored, order[i]) < IndexOf(stored, order[j])) => i < j
        /\ (order[i] \in Range(stored) /\ order[j] \notin Range(stored)) => i < j

\* C11: whatever order is stored, once fetchPinnedOrder has read it and the
\* Sidebar has rendered it, pinnedOrder holds exactly the ids of the pinned
\* pages, each once, the surviving ids in their stored order ahead of the
\* missing ones, and the stored copy in the Local Store equals it.
C11_FetchedOrderIsExactAndPersisted ==
    [][(/\ lastCall.op = "fetchPinnedOrder"
        /\ lastCall.user # 0
        /\ lastCall'.op = "sortedPinnedPages") =>
         /\ ExactlyPinned(pinnedOrder', pages')
         /\ KeepsStoredOrder(pinnedOrder', pinnedOrder)
         /\ cachedValue(localPrefs') = pinnedOrder']_vars

\* The entries of a handler's log that are about the call named.
Entries(log, call) == {k \in 1..Len(log) : log[k].call = call}

\* Whether the row of the secret id in table decrypts under pin.
DecryptsUnder(table, id, pin) ==
    \E k \in 1..Len(table) :
        table[k].id = id /\ decryptData(table[k].encrypted_data, pin).ok

\* C12: in updatePin the update of pin_hash is issued only after the
\* re-encrypted envelope of every secret of the store's list has been written
\* remotely without error, and the PinRecord changes in no other way; if the
\* re-encryption or the remote write of a secret fails, updatePin rejects with
\* the partial re-key error and the PinRecord still holds hash(oldPin).
C12_PinHashWrittenLast ==
    [][(kmsCall'.op = "updatePin") =>
         LET log == kmsCall'.log
         IN  /\ (Entries(log, "pin_hash") # {}) =>
                   /\ Len(log) > Len(secrets)
                   /\ \A k \in 1..Len(secrets) :
                        /\ log[k] = Did("rekey", secrets[k].id, TRUE)
                        /\ \A j \in Entries(log, "pin_hash") : k < j
             /\ (userPins' # userPins) =>
                   \E j \in Entries(log, "pin_hash") : log[j].ok
             /\ (\E k \in Entries(log, "rekey") : ~log[k].ok) =>
                   /\ kmsCall'.outcome = "threw"
                   /\ kmsCall'.thrown = PartialRekey
                   /\ Entries(log, "pin_hash") = {}
                   /\ userPins' = {PinRow(1, kmsCall'.pin)}]_vars

\* A first secret re-encrypted under the new PIN, the second failing, and
\* the PinRecord still holding the hash of the old PIN.
C12_Witness ==
    /\ kmsCall.op = "updatePin"
    /\ kmsCall.pin # kmsCall.newPin
    /\ kmsCall.thrown = PartialRekey
    /\ Len(kmsCall.log) = 2
    /\ kmsCall.log[1].ok
    /\ ~kmsCall.log[2].ok
    /\ DecryptsUnder(remoteSecrets, kmsCall.log[1].id, kmsCall.newPin)
    /\ userPins = {PinRow(1, kmsCall.pin)}

\* C13: once updatePin(oldPin, newPin) has resolved, every secret the remote
\* table held for the user when it was called holds an envelope that
\* decrypts under newPin.
C13_EveryRemoteSecretRekeyed ==
    [][(kmsCall'.op = "updatePin" /\ kmsCall'.outcome = "returned") =>
         \A k \in 1..Len(remoteSecrets) :
             DecryptsUnder(remoteSecrets', remoteSecrets[k].id, kmsCall'.newPin)]_vars

\* The envelope the row of the secret id holds in table.
EnvelopeOf(table, id) ==
    table[CHOOSE k \in 1..Len(table) : table[k].id = id].encrypted_data

\* C14: when re-keying the k-th secret of the list fails, updatePin stops
\* there: its log ends with the failed k-th entry, the secrets before k hold
\* envelopes that decrypt under newPin, and the secrets from k on hold the
\* envelopes they held before the call.
C14_RekeyStopsAtFailure ==
    [][(kmsCall'.op = "updatePin" /\ kmsCall'.thrown = PartialRekey) =>
         LET log == kmsCall'.log
             k   == Len(log)
         IN  /\ k \in 1..Len(secrets)
             /\ \A j \in 1..k : log[j] = Did("rekey", secrets[j].id, j < k)
             /\ \A j \in 1..(k - 1) :
                    DecryptsUnder(remoteSecrets', secrets[j].id, kmsCall'.newPin)
             /\ \A j \in k..Len(secrets) :
                    EnvelopeOf(remoteSecrets', secrets[j].id)
                        = EnvelopeOf(remoteSecrets, secrets[j].id)
             /\ Len(remoteSecrets') = Len(remoteSecrets)]_vars

\* The first of two secrets fails for a remote error: the second, still
\* under the old PIN, has not been touched.
C14_Witness ==
    /\ kmsCall.op = "updatePin"
    /\ kmsCall.pin # kmsCall.newPin
    /\ kmsCall.thrown = PartialRekey
    /\ Len(secrets) = 2
    /\ kmsCall.log = <<Did("rekey", secrets[1].id, FALSE)>>
    /\ \A j \in 1..2 : /\ DecryptsUnder(remoteSecrets, secrets[j].id, kmsCall.pin)
                       /\ ~DecryptsUnder(remoteSecrets, secrets[j].id, kmsCall.newPin)

\* C15: decryptData gives back what encryptData was given when the PIN is the
\* same: the envelope addSecret(name, value, pin) has stored decrypts under
\* pin to value, and a getSecret(id, pin) that follows the addSecret and
\* finds the row resolves to value.
C15_RoundTrip ==
    [][/\ (kmsCall'.op = "addSecret" /\ kmsCall'.outcome = "returned") =>
            LET id == kmsCall'.id
            IN  /\ \E n \in Ivs :
                      EnvelopeOf(remoteSecrets', id)
                          = encryptData(kmsCall'.value, kmsCall'.pin, n)
                /\ decryptData(EnvelopeOf(remoteSecrets', id), kmsCall'.pin)
                      = [ok |-> TRUE, value |-> kmsCall'.value]
                /\ getSecret(remoteSecrets', id, kmsCall'.pin, "ok")
                      = [ok |-> TRUE, value |-> kmsCall'.value, thrown |-> NoError]
       /\ (/\ kmsCall.op = "addSecret"
           /\ kmsCall.outcome = "returned"
           /\ kmsCall'.op = "getSecret"
           /\ kmsCall'.id = kmsCall.id
           /\ kmsCall'.pin = kmsCall.pin
           /\ kmsCall'.log[1].ok) =>
            /\ kmsCall'.outcome = "returned"
            /\ kmsCall'.result = kmsCall.value]_vars

\* C16: an envelope made under one PIN does not decrypt under another:
\* decryptData rejects and yields no text, for the envelope addSecret has
\* just stored and for every stored envelope getSecret is asked to open
\* with a PIN other than the one it decrypts under; getSecret then rejects
\* with the error of the decryption and resolves to nothing.
C16_WrongPinRejects ==
    [][/\ (kmsCall'.op = "addSecret" /\ kmsCall'.outcome = "returned") =>
            \A pin2 \in Pins \ {kmsCall'.pin} :
                decryptData(EnvelopeOf(remoteSecrets', kmsCall'.id), pin2)
                    = [ok |-> FALSE, value |-> EmptyText]
       /\ (/\ kmsCall'.op = "getSecret"
           /\ kmsCall'.log[1].ok
           /\ \E pin1 \in Pins \ {kmsCall'.pin} :
                  DecryptsUnder(remoteSecrets, kmsCall'.id, pin1)) =>
            /\ kmsCall'.outcome = "threw"
            /\ kmsCall'.thrown = "OperationError"
            /\ kmsCall'.result = EmptyText]_vars

\* getSecret has been called with the wrong PIN for a stored secret.
C16_Witness ==
    /\ kmsCall.op = "getSecret"
    /\ kmsCall.thrown = "OperationError"
    /\ ~DecryptsUnder(remoteSecrets, kmsCall.id, kmsCall.pin)
    /\ \E pin1 \in Pins : DecryptsUnder(remoteSecrets, kmsCall.id, pin1)

\* Whether pins holds a PinRecord of the user whose hash is that of pin.
HashMatches(pins, user, pin) ==
    \E row \in pins : row.user_id = user /\ row.pin_hash = hashPin(pin)

\* C17: verifyPin(q) resolves to true exactly when there is a user, the
\* select of the PinRecord succeeds and the record's hash is hashPin(q); once
\* createPin(p) has resolved, verifyPin(p) is true and verifyPin(q) is false
\* for every other q, also as the very next call.
C17_VerifyPinIffHashMatches ==
    [][/\ (kmsCall'.op = "verifyPin") =>
            /\ kmsCall'.outcome = "returned"
            /\ kmsCall'.flag = (/\ kmsCall'.user # 0
                                /\ kmsCall'.log[1].ok
                                /\ HashMatches(userPins, kmsCall'.user, kmsCall'.pin))
       /\ (kmsCall'.op = "createPin" /\ kmsCall'.outcome = "returned") =>
            \A q \in Pins :
                /\ verifyPin(userPins', q, 1, "ok") = (q = kmsCall'.pin)
                /\ ~verifyPin(userPins', q, 0, "ok")
                /\ ~verifyPin(userPins', q, 1, "failed")
       /\ (/\ kmsCall.op = "createPin"
           /\ kmsCall.outcome = "returned"
           /\ kmsCall'.op = "verifyPin"
           /\ kmsCall'.user # 0
           /\ kmsCall'.log[1].ok) =>
            kmsCall'.flag = (kmsCall'.pin = kmsCall.pin)]_vars

\* verifyPin has resolved to true for the PIN of the PinRecord.
C17_Witness ==
    /\ kmsCall.op = "verifyPin"
    /\ kmsCall.flag
    /\ userPins = {PinRow(1, kmsCall.pin)}

\* The entries of a handlePinSubmit log that are the pending action's call.
ActionEntries(log) == Entries(log, "addSecret") \cup Entries(log, "getSecret")

\* C18: a verified PIN authorises one pending action.  While a PinRecord
\* exists, handlePinSubmit invokes the pending add or reveal only after
\* verifyPin has resolved to true for the submitted PIN, and at most once; a
\* failed verification invokes nothing and leaves the vault and the revealed
\* map alone; when handlePinSubmit is through, whether the action completed
\* or failed, pinModal and pendingAction are cleared; and nothing is added or
\* revealed but by a handlePinSubmit entered with the modal up and an action
\* pending.
C18_VerifiedPinAuthorisesOneAction ==
    [][/\ (kmsCall'.op = "handlePinSubmit") =>
            LET log == kmsCall'.log
            IN  /\ pinModal # "null" /\ pendingAction # NoAction
                /\ pinModal' = "null" /\ pendingAction' = NoAction
                /\ Cardinality(ActionEntries(log)) <= 1
                /\ (HasPinRow(userPins, 1) /\ ActionEntries(log) # {}) =>
                       /\ log[1] = Did("verifyPin", 0, TRUE)
                       /\ HashMatches(userPins, 1, kmsCall'.pin)
                       /\ ActionEntries(log) = {2}
                /\ (log[1] = Did("verifyPin", 0, FALSE)) =>
                       /\ Len(log) = 1
                       /\ kmsCall'.outcome = "threw"
                       /\ UNCHANGED <<secrets, remoteSecrets, revealedSecrets>>
       /\ (remoteSecrets' # remoteSecrets \/ ~(revealedSecrets' \subseteq revealedSecrets)) =>
            kmsCall'.op = "handlePinSubmit"]_vars

\* A reveal has gone through on a verified PIN and the gate is locked again.
C18_Witness ==
    /\ kmsCall.op = "handlePinSubmit"
    /\ Len(kmsCall.log) = 2
    /\ kmsCall.log[1] = Did("verifyPin", 0, TRUE)
    /\ kmsCall.log[2] = Did("getSecret", kmsCall.id, TRUE)
    /\ IsRevealed(revealedSecrets, kmsCall.id)
    /\ pinModal = "null"
    /\ pendingAction = NoAction

\* A value as the remote table may hold it: base64 text that is an IV
\* followed by ciphertext and tag, which some PIN decrypts, with no byte of
\* it a byte of text.
IsEnvelope(value) ==
    /\ value.enc = "base64"
    /\ \A k \in 1..Len(value.body) : value.body[k].kind \in {"iv", "ct", "tag"}
    /\ \E pin \in Pins : decryptData(value, pin).ok

\* The texts a secret can have: as typed, or as decryptData gives them back.
SecretTexts == Plaintexts \cup {TextDecode(TextEncode(text)) : text \in Plaintexts}

\* No secret value outside an envelope in the remote table or in the list
\* fetched from it, and nothing of the vault in IndexedDB or the queue.
NoPlaintextStored ==
    /\ \A k \in 1..Len(remoteSecrets) : IsEnvelope(remoteSecrets[k].encrypted_data)
    /\ \A k \in 1..Len(secrets) : IsEnvelope(secrets[k].encrypted_data)
    /\ localPages = {} /\ syncQueue = {} /\ localPrefs = {}

\* C19: no plaintext secret value is in the remote table, the Local Store or
\* the queue in any reachable state: what addSecret and updatePin write is an
\* envelope encryptData has made; a plaintext enters the revealed map only
\* when a reveal has decrypted the stored envelope of that secret, and leaves
\* it when toggleSecretVisibility hides that secret.
C19_NoPlaintextAtRest ==
    /\ []NoPlaintextStored
    /\ [][/\ (kmsCall'.op \in {"addSecret", "updatePin"}) =>
               \A k \in 1..Len(remoteSecrets') :
                   \/ /\ k <= Len(remoteSecrets)
                      /\ remoteSecrets'[k] = remoteSecrets[k]
                   \/ \E text \in SecretTexts, pin \in Pins, n \in Ivs :
                        remoteSecrets'[k].encrypted_data = encryptData(text, pin, n)
          /\ \A e \in revealedSecrets' \ revealedSecrets :
               /\ kmsCall'.op = "handlePinSubmit"
               /\ e.id = kmsCall'.id
               /\ decryptData(EnvelopeOf(remoteSecrets, e.id), kmsCall'.pin)
                      = [ok |-> TRUE, value |-> e.value]
          /\ (revealedSecrets \ revealedSecrets' # {}) =>
               \/ /\ kmsCall'.op = "toggleSecretVisibility"
                  /\ revealedSecrets' = {e \in revealedSecrets : e.id # kmsCall'.id}
               \/ /\ kmsCall'.op = "handlePinSubmit"
                  /\ \A e \in revealedSecrets \ revealedSecrets' : e.id = kmsCall'.id]_vars

\* A secret added with a byte order mark, re-keyed by updatePin and then
\* revealed: the map holds its text, the remote table its envelope.
C19_Witness ==
    \E e \in revealedSecrets, pin \in Pins :
        /\ e.value = PlainText("hunter2")
        /\ EnvelopeOf(remoteSecrets, e.id) = encryptData(PlainText("hunter2"), pin, 1)
        /\ NoPlaintextStored

\* C21: createPin, addSecret, getSecret and updatePin reject a PIN shorter
\* than six characters: the call rejects, no PinRecord and no secret is
\* written and nothing is decrypted.
C21_ShortPinRejectedByStore ==
    [][(/\ kmsCall'.op \in {"createPin", "addSecret", "getSecret", "updatePin"}
        /\ \/ Len(kmsCall'.pin) < MinPinLength
           \/ kmsCall'.op = "updatePin" /\ Len(kmsCall'.newPin) < MinPinLength) =>
         /\ kmsCall'.outcome = "threw"
         /\ kmsCall'.result = EmptyText
         /\ UNCHANGED <<userPins, remoteSecrets>>]_vars

\* C22: after a fetchPages whose remote select succeeded, the projection is
\* the rows the select returned and the Local Store holds exactly those rows.
C22_FetchOverwritesLocalStore ==
    [][(lastCall'.op = "fetchPages" /\ lastCall'.remote = "ok") =>
         /\ pages' = remoteSelectAll(remotePages)
         /\ localPages' = Range(remoteSelectAll(remotePages))]_vars

\* C23: when a page write made online has had its remote call succeed, the
\* queue it leaves holds no mutation whose change the remote table already
\* has.
C23_SyncedWriteLeavesNothingQueued ==
    [][(/\ lastCall'.op \in WriteOps
        /\ lastCall'.online
        /\ lastCall'.remote = "ok") =>
         \A m \in syncQueue' : m.inline # "ok"]_vars

\* C26: a page that is in the Local Store, with its create mutation queued
\* and no row in the remote table, is in the projection after a fetchPages
\* whose select succeeded.
C26_UnsyncedPageSurvivesFetch ==
    [][(lastCall'.op = "fetchPages" /\ lastCall'.remote = "ok") =>
         \A p \in localPages :
             (/\ \E m \in syncQueue : m.type = "create" /\ m.data.id = p.id
              /\ ~HasRow(remotePages, p.id)) =>
                 \E k \in 1..Len(pages') : pages'[k].id = p.id]_vars

\* C30: updatePage for a page the Local Store holds does not reject with
\* 'Page not found': it writes the record with the new title to the Local
\* Store.
C30_CachedPageCanBeUpdated ==
    [][(/\ lastCall'.op = "updatePage"
        /\ \E p \in localPages : p.id = lastCall'.id) =>
         /\ error' # "Page not found"
         /\ \E p \in localPages' : p.id = lastCall'.id /\ p.title = EditedTitle]_vars

TodoOps == {"handleCreateTodo", "handleToggleComplete", "handleSaveEdit",
            "handleDeleteTodo"}

\* C24: when the remote write of a todo handler fails, the in-memory list is
\* not rolled back: after the handler the list holds, for that todo, what
\* the Local Store holds for it (the written record, or nothing after a
\* delete).
C24_FailedTodoWriteKeepsOptimisticList ==
    [][(lastCall'.op \in TodoOps /\ lastCall'.remote = "failed") =>
         {todos'[k] : k \in {j \in 1..Len(todos') : todos'[j].id = lastCall'.id}}
             = {l \in localTodos' : l.id = lastCall'.id}]_vars

\* Every PIN verifyPin accepts for the user decrypts every stored secret.
PinOpensEverySecret ==
    \A pin \in Pins :
        HashMatches(userPins, 1, pin) =>
            \A k \in 1..Len(remoteSecrets) :
                decryptData(remoteSecrets[k].encrypted_data, pin).ok

\* C25: the PIN-gated flow (createPin, verify-then-addSecret,
\* verify-then-getSecret, an updatePin that resolves; also with an action
\* started while hasPin is still false) keeps every stored secret under the
\* PIN of the PinRecord: no step of the flow other than an updatePin that
\* rejects leads from a state where every PIN verifyPin accepts decrypts
\* every stored secret to a state where one does not.
C25_GatedFlowKeepsSecretsUnderPin ==
    [][(PinOpensEverySecret /\ ~(kmsCall'.op = "updatePin" /\ kmsCall'.outcome = "threw"))
          => PinOpensEverySecret']_vars

\* C27: however a fetchPinnedOrder and a reorderPinnedPages(newOrder)
\* interleave at their await points, once no call is standing and the call
\* that completed last had a user, pinnedOrder is the value of
\* 'pinned_order' in the Local Store's user_preferences.
C27_OverlapLeavesOrderAndStoreEqual ==
    (/\ inflight = {}
     /\ lastCall.op \in {"fetchPinnedOrder", "reorderPinnedPages"}
     /\ lastCall.user # 0) =>
        pinnedOrder = cachedValue(localPrefs)

\* C28: however a deletePage(P) and a createPage(title, type, P) interleave
\* at their await points, once no call is standing no page of the
\* projection or of the Local Store names as its parent a page whose
\* deletion went through (a page with a 'delete' mutation in the queue).
C28_NoChildOfDeletedPage ==
    (inflight = {}) =>
        \A p \in Range(pages) \cup localPages :
            \A m \in syncQueue :
                (m.type = "delete" /\ m.table = "pages") => p.parent_id # m.data.id

\* C29: a drain removes only entries of the snapshot it read.  While a
\* processSyncQueue stands at an await, a queue entry that is not among the
\* items the drain has still to go through (so every mutation enqueued since
\* the snapshot was read) is still queued after the step, the step that
\* ends the drain included.
C29_DrainRemovesOnlyItsSnapshot ==
    [][\A c \in Standing("processSyncQueue") :
         \A m \in syncQueue :
             (\A k \in 1..Len(c.local.items) : c.local.items[k].id # m.id) =>
                 m \in syncQueue']_vars

\* A drain has just ended that removed an entry of its snapshot, and the
\* queue holds a mutation that was enqueued while it ran.
C29_Witness ==
    /\ lastCall.op = "online"
    /\ inflight = {}
    /\ \E j \in 1..Len(lastCall.log) : lastCall.log[j].ok
    /\ \E m \in syncQueue : \A j \in 1..Len(lastCall.log) : lastCall.log[j].id # m.id
====
